---- MODULE Spec2Model ----
(***************************************************************************)
(* Breakout trend-following backtester: strategy engine, risk engine and   *)
(* the daily event loop of the backtest engine.                            *)
(*                                                                         *)
(* Numbers.  Prices are integers (one unit = one tick of the instrument),  *)
(* money is in whole dollars, and every fraction of the configuration      *)
(* (risk_per_trade, the exposure and drawdown limits, the risk            *)
(* multiplier) is an exact ratio [num, den] compared by cross              *)
(* multiplication, so no rounding is introduced by the model.  numpy's     *)
(* NaN is the value NaN below: every comparison with it is false, as in    *)
(* Python.                                                                 *)
(***************************************************************************)
EXTENDS Integers, Sequences, FiniteSets, TLC

(***************************************************************************)
(* Optional values                                                         *)
(***************************************************************************)
\* np.nan, the value of a rolling feature whose window is not full
NaN == 999999

\* Python's None for an optional date
NoDate == 0

IsNa(x) == x = NaN

Abs(x) == IF x < 0 THEN 0 - x ELSE x

\* An exact fraction num/den, den > 0
Ratio(n, d) == [num |-> n, den |-> d]
RatioLt(a, b) == a.num * b.den < b.num * a.den
\* variant: a limit counts only once it is exceeded
RatioGt(a, b) == a.num * b.den > b.num * a.den

RatioGe(a, b) == a.num * b.den >= b.num * a.den

(***************************************************************************)
(* Strategy engine (strategy_engine.py)                                    *)
(***************************************************************************)
\* SignalAction values that close a position
ExitActions == {"exit_long", "exit_short", "stop_long", "stop_short"}
EntryActions == {"entry_long", "entry_short"}

\* PositionState(): the dataclass defaults
PositionState == [direction |-> "none", entry_price |-> 0, entry_date |-> NoDate,
                  stop_price |-> 0, contracts |-> 0,
                  last_exit_date |-> NoDate, last_exit_direction |-> "none"]

check_trend_filter(close, ma_50, ma_slope_10) ==
    IF IsNa(ma_50) \/ IsNa(ma_slope_10) THEN "neutral"
    ELSE IF close > ma_50 /\ ma_slope_10 > 0 THEN "long"
    ELSE IF close < ma_50 /\ ma_slope_10 < 0 THEN "short"
    ELSE "neutral"

\* returns "none" for Python's None
check_breakout_entry(close, prev_close, hh_20, ll_20, trend) ==
    IF IsNa(hh_20) \/ IsNa(ll_20) THEN "none"
    ELSE IF trend = "long" /\ close > hh_20 /\ prev_close <= hh_20 THEN "entry_long"
    ELSE IF trend = "short" /\ close < ll_20 /\ prev_close >= ll_20 THEN "entry_short"
    ELSE "none"

\* variant: both exits are measured against the other end of the channel
check_exit_signal_crossed(close, ll_10, hh_10, position_direction) ==
    IF IsNa(ll_10) \/ IsNa(hh_10) THEN "none"
    ELSE IF position_direction = "long" /\ close < hh_10 THEN "exit_long"
    ELSE IF position_direction = "short" /\ close > ll_10 THEN "exit_short"
    ELSE "none"

check_exit_signal(close, ll_10, hh_10, position_direction) ==
    IF IsNa(ll_10) \/ IsNa(hh_10) THEN "none"
    ELSE IF position_direction = "long" /\ close < ll_10 THEN "exit_long"
    ELSE IF position_direction = "short" /\ close > hh_10 THEN "exit_short"
    ELSE "none"

\* variant: a stop counts only when the bar trades through it
check_stop_hit_strict(high, low, stop_price, position_direction) ==
    IF position_direction = "long" THEN low < stop_price
    ELSE IF position_direction = "short" THEN high > stop_price
    ELSE FALSE

check_stop_hit(high, low, stop_price, position_direction) ==
    IF position_direction = "long" THEN low <= stop_price
    ELSE IF position_direction = "short" THEN high >= stop_price
    ELSE FALSE

\* variant: the stop on the profit side of the entry
calculate_stop_price_flipped(self, entry_price, atr, direction) ==
    LET stop_distance == IF IsNa(atr) THEN NaN ELSE self.stop_atr_multiple * atr
    IN  IF IsNa(stop_distance) THEN NaN
        ELSE IF direction = "long" THEN entry_price + stop_distance
        ELSE entry_price - stop_distance

calculate_stop_price(self, entry_price, atr, direction) ==
    LET stop_distance == IF IsNa(atr) THEN NaN ELSE self.stop_atr_multiple * atr
    IN  IF IsNa(stop_distance) THEN NaN
        ELSE IF direction = "long" THEN entry_price - stop_distance
        ELSE entry_price + stop_distance

\* (current_date - last_exit_date).days: dates are calendar day numbers
is_in_cooldown(self, current_date, last_exit_date, last_exit_direction, entry_direction) ==
    IF last_exit_date = NoDate \/ last_exit_direction = "none" THEN FALSE
    ELSE IF last_exit_direction # entry_direction THEN FALSE
    ELSE LET days_since_exit == current_date - last_exit_date
         IN  days_since_exit < self.cooldown_days

StrategySignal(date, action, price, stop_price, reason) ==
    [date |-> date, action |-> action, price |-> price,
     stop_price |-> stop_price, reason |-> reason]

\* prev_bar is <<>> for None and <<bar>> otherwise; a signal without a stop
\* carries stop_price NaN (None in the source)
generate_signal(self, current_date, current_bar, prev_bar, features, position) ==
    LET close == current_bar.close
        high == current_bar.high
        low == current_bar.low
        atr == features.atr_20
        has_position == position.direction # "none"
    IN  IF has_position THEN
            IF check_stop_hit(high, low, position.stop_price, position.direction)
            THEN StrategySignal(current_date,
                     IF position.direction = "long" THEN "stop_long" ELSE "stop_short",
                     position.stop_price, NaN, "Catastrophe stop hit")
            ELSE LET exit_signal == check_exit_signal(close, features.ll_10,
                                                      features.hh_10, position.direction)
                 IN  IF exit_signal # "none"
                     THEN StrategySignal(current_date, exit_signal, close, NaN,
                                         "Exit signal: close crossed LL10/HH10")
                     ELSE StrategySignal(current_date, "hold", close, NaN,
                                         "Holding position")
        ELSE IF prev_bar = <<>> THEN
            StrategySignal(current_date, "no_action", close, NaN, "No previous bar data")
        ELSE
            LET prev_close == prev_bar[1].close
                trend == check_trend_filter(close, features.ma_50, features.ma_slope_10)
            IN  IF trend = "neutral" THEN
                    StrategySignal(current_date, "no_action", close, NaN,
                                   "No clear trend (neutral filter)")
                ELSE
                LET entry_signal == check_breakout_entry(close, prev_close,
                                        features.hh_20, features.ll_20, trend)
                    entry_direction == IF entry_signal = "entry_long" THEN "long" ELSE "short"
                IN  IF entry_signal = "none" THEN
                        StrategySignal(current_date, "no_action", close, NaN,
                                       "Trend but no breakout")
                    ELSE IF is_in_cooldown(self, current_date, position.last_exit_date,
                                           position.last_exit_direction, entry_direction)
                    THEN StrategySignal(current_date, "no_action", close, NaN,
                                        "In cooldown period")
                    ELSE StrategySignal(current_date, entry_signal, close,
                             calculate_stop_price(self, close, atr, entry_direction),
                             "Breakout entry")

(***************************************************************************)
(* Risk engine (risk_engine.py)                                            *)
(***************************************************************************)
calculate_risk_state(self, current_equity, peak_equity, daily_pnl, start_of_day_equity) ==
    LET drawdown_pct == IF peak_equity > 0
                        THEN Ratio(peak_equity - current_equity, peak_equity)
                        ELSE Ratio(0, 1)
        daily_loss_pct == IF start_of_day_equity > 0
                          THEN Ratio(daily_pnl, start_of_day_equity)
                          ELSE Ratio(0, 1)
        limit == self.daily_loss_limit_pct
        base == [equity |-> current_equity, peak_equity |-> peak_equity,
                 daily_pnl |-> daily_pnl, drawdown_pct |-> drawdown_pct,
                 daily_loss_pct |-> daily_loss_pct]
    IN  IF RatioLt(daily_loss_pct, Ratio(0 - limit.num, limit.den)) THEN
            base @@ [mode |-> "halt", risk_multiplier |-> Ratio(0, 1),
                     can_open_new_trades |-> FALSE,
                     message |-> "Daily loss limit exceeded. No new trades today."]
        ELSE IF RatioGe(drawdown_pct, self.drawdown_halt_pct) THEN
            base @@ [mode |-> "halt", risk_multiplier |-> Ratio(0, 1),
                     can_open_new_trades |-> FALSE,
                     message |-> "Max drawdown exceeded. Risk-off mode."]
        ELSE IF RatioGe(drawdown_pct, self.drawdown_warning_pct) THEN
            base @@ [mode |-> "warning", risk_multiplier |-> Ratio(1, 2),
                     can_open_new_trades |-> TRUE,
                     message |-> "Drawdown warning. Risk reduced to 50%."]
        ELSE
            base @@ [mode |-> "normal", risk_multiplier |-> Ratio(1, 1),
                     can_open_new_trades |-> TRUE,
                     message |-> "Normal operations"]

PositionSize(contracts, risk_amount, stop_distance_points, stop_distance_dollars, reason) ==
    [contracts |-> contracts, risk_amount |-> risk_amount,
     stop_distance_points |-> stop_distance_points,
     stop_distance_dollars |-> stop_distance_dollars, reason |-> reason]

\* max_contracts_per_instrument, max_gross_exposure and max_correlated_exposure
\* are <<>> when not configured (None) and <<v>> otherwise
\* variant: the per-instrument cap ignored
calculate_position_size_uncapped(self, equity, entry_price, stop_price, tick_size, multiplier, risk_state) ==
    LET stop_distance_points == Abs(entry_price - stop_price)
        stop_distance_dollars == stop_distance_points * multiplier
        adjusted_risk_amount ==
            Ratio(equity * self.risk_per_trade.num * risk_state.risk_multiplier.num,
                  self.risk_per_trade.den * risk_state.risk_multiplier.den)
    IN  IF stop_distance_dollars <= 0 THEN
            PositionSize(0, Ratio(0, 1), 0, 0, "Invalid stop distance")
        ELSE IF adjusted_risk_amount.num <= 0 THEN
            PositionSize(0, Ratio(0, 1), stop_distance_points, stop_distance_dollars,
                         "Risk halted")
        ELSE PositionSize(adjusted_risk_amount.num
                            \div (adjusted_risk_amount.den * stop_distance_dollars),
                          adjusted_risk_amount, stop_distance_points,
                          stop_distance_dollars, "Normal sizing")

\* variant: the quotient rounded up
math_ceil(num, den) == (num + den - 1) \div den

\* int(math.floor(num / den)), for den > 0
math_floor(num, den) == num \div den

calculate_position_size(self, equity, entry_price, stop_price, tick_size, multiplier, risk_state) ==
    LET stop_distance_points == Abs(entry_price - stop_price)
        stop_distance_dollars == stop_distance_points * multiplier
        \* equity * risk_per_trade * risk_multiplier, kept exact
        adjusted_risk_amount ==
            Ratio(equity * self.risk_per_trade.num * risk_state.risk_multiplier.num,
                  self.risk_per_trade.den * risk_state.risk_multiplier.den)
    IN  IF stop_distance_dollars <= 0 THEN
            PositionSize(0, Ratio(0, 1), 0, 0, "Invalid stop distance")
        ELSE IF adjusted_risk_amount.num <= 0 THEN
            PositionSize(0, Ratio(0, 1), stop_distance_points, stop_distance_dollars,
                         "Risk halted")
        ELSE
        LET \* int(math.floor(adjusted_risk_amount / stop_distance_dollars))
            floored == math_floor(adjusted_risk_amount.num,
                                  adjusted_risk_amount.den * stop_distance_dollars)
            max_contracts == self.max_contracts_per_instrument
            capped == max_contracts # <<>> /\ floored > max_contracts[1]
            contracts == IF capped THEN max_contracts[1] ELSE floored
        IN  PositionSize(IF contracts < 0 THEN 0 ELSE contracts,
                         adjusted_risk_amount, stop_distance_points,
                         stop_distance_dollars,
                         IF capped THEN "Limited to max contracts per instrument"
                         ELSE "Normal sizing")

RECURSIVE SumValue(_)
\* variant: signed values, a short offsetting a long
SumValue(positions) ==
    IF positions = <<>> THEN 0
    ELSE positions[1].value + SumValue(Tail(positions))

RECURSIVE SumAbsValue(_)
\* sum(abs(p['value']) for p in positions)
SumAbsValue(positions) ==
    IF positions = <<>> THEN 0
    ELSE Abs(positions[1].value) + SumAbsValue(Tail(positions))

\* variant: every index future counted as correlated
all_index_symbols == {"ES", "NQ", "YM"}

\* the hard-wired correlated group: E-mini S&P and Nasdaq
correlated_symbols == {"ES", "NQ"}

\* variant: no limit enforced
check_exposure_limits_off(self, current_positions, new_position_value, equity, instrument_symbol) ==
    [allowed |-> TRUE, reason |-> "Within exposure limits"]

check_exposure_limits(self, current_positions, new_position_value, equity, instrument_symbol) ==
    LET total_current_exposure == SumAbsValue(current_positions)
        total_new_exposure == total_current_exposure + Abs(new_position_value)
        max_gross == self.max_gross_exposure
        max_corr == self.max_correlated_exposure
        correlated_exposure ==
            SumAbsValue(SelectSeq(current_positions,
                                  LAMBDA p : p.symbol \in correlated_symbols))
              + Abs(new_position_value)
    IN  IF max_gross # <<>>
           /\ total_new_exposure * max_gross[1].den > equity * max_gross[1].num
        THEN [allowed |-> FALSE, reason |-> "Would exceed max gross exposure"]
        ELSE IF max_corr # <<>> /\ instrument_symbol \in correlated_symbols
                /\ correlated_exposure * max_corr[1].den > equity * max_corr[1].num
        THEN [allowed |-> FALSE, reason |-> "Would exceed max correlated exposure for ES+NQ"]
        ELSE [allowed |-> TRUE, reason |-> "Within exposure limits"]

\* returns the pair (PositionSize, RiskState) as a record; current_positions
\* is <<>> when the caller leaves it out (None) and <<list>> when it passes one
validate_trade(self, equity, peak_equity, daily_pnl, start_of_day_equity, entry_price, stop_price, tick_size, multiplier, current_positions, instrument_symbol) ==
    LET risk_state == calculate_risk_state(self, equity, peak_equity, daily_pnl,
                                           start_of_day_equity)
    IN  IF ~risk_state.can_open_new_trades THEN
            [position_size |->
                 PositionSize(0, Ratio(0, 1), Abs(entry_price - stop_price),
                              Abs(entry_price - stop_price) * multiplier,
                              risk_state.message),
             risk_state |-> risk_state]
        ELSE
        LET position_size == calculate_position_size(self, equity, entry_price,
                                 stop_price, tick_size, multiplier, risk_state)
            position_value == position_size.contracts * entry_price * multiplier
            check == check_exposure_limits(self, current_positions[1], position_value,
                                           equity, instrument_symbol)
        IN  IF current_positions # <<>> /\ position_size.contracts > 0
               /\ ~check.allowed
            THEN [position_size |-> [position_size EXCEPT !.contracts = 0,
                                                           !.reason = check.reason],
                  risk_state |-> risk_state]
            ELSE [position_size |-> position_size, risk_state |-> risk_state]

(***************************************************************************)
(* Backtest engine (backtest_engine.py): positions and fills               *)
(*                                                                         *)
(* The Python methods take the BacktestState, mutate it and the database   *)
(* session, and may raise.  Here each is an operator on an environment     *)
(* e = [state, db, error]: state is the BacktestState, db the rows added   *)
(* to the session for this run (signals, fills, snapshots), error the      *)
(* text of the exception raised ("" while none was).  What was mutated     *)
(* before a raise stays mutated.                                           *)
(***************************************************************************)
NoError == ""

\* BacktestPosition.get_value
get_value(position, current_price) ==
    position.quantity * current_price * position.multiplier

\* variant: P&L in points, the contract multiplier left out
get_pnl_in_points(position, current_price) ==
    position.quantity * (current_price - position.entry_price)

\* BacktestPosition.get_pnl
get_pnl(position, current_price) ==
    position.quantity * (current_price - position.entry_price) * position.multiplier

\* state.positions is a dict keyed by instrument id, iterated in insertion
\* order: a sequence of BacktestPosition records, one per key
HasPosition(positions, instrument_id) ==
    \E k \in 1..Len(positions) : positions[k].instrument_id = instrument_id

PositionOf(positions, instrument_id) ==
    positions[CHOOSE k \in 1..Len(positions) : positions[k].instrument_id = instrument_id]

\* state.positions[instrument.id] = position
SetPosition(positions, position) ==
    IF HasPosition(positions, position.instrument_id)
    THEN [k \in 1..Len(positions) |->
             IF positions[k].instrument_id = position.instrument_id
             THEN position ELSE positions[k]]
    ELSE Append(positions, position)

\* del state.positions[instrument_id], for a key that is present
DelPosition(positions, instrument_id) ==
    SelectSeq(positions, LAMBDA p : p.instrument_id # instrument_id)

\* str(KeyError(instrument_id)), the text run_backtest stores: the key's repr
KeyErrorText(instrument_id) == ToString(instrument_id)

\* del state.positions[instrument_id] on the environment: KeyError when absent
DelPositionOrRaise(e, instrument_id) ==
    IF e.error # NoError THEN e
    ELSE IF HasPosition(e.state.positions, instrument_id)
    THEN [e EXCEPT !.state.positions = DelPosition(@, instrument_id)]
    ELSE [e EXCEPT !.error = KeyErrorText(instrument_id)]

\* variant: _execute_exit leaves the removal to its caller
ExitKeepsPosition(e, instrument_id) == e

\* the tail of _execute_exit: the position leaves the dict inside the method
ExitRemovesPosition(e, instrument_id) == DelPositionOrRaise(e, instrument_id)

_execute_entry(e, entry_date, instrument, quantity, entry_price, stop_price, config) ==
    LET commission == config.commission_per_contract * Abs(quantity)
        fill == [kind |-> "entry", instrument_id |-> instrument.id,
                 fill_date |-> entry_date,
                 side |-> IF quantity > 0 THEN "buy" ELSE "sell",
                 quantity |-> Abs(quantity), fill_price |-> entry_price,
                 commission |-> commission]
        position == [instrument_id |-> instrument.id, symbol |-> instrument.symbol,
                     quantity |-> quantity, entry_price |-> entry_price,
                     entry_date |-> entry_date, stop_price |-> stop_price,
                     multiplier |-> instrument.multiplier]
    IN  [e EXCEPT !.db.fills = Append(@, fill),
                  !.state.positions = SetPosition(@, position),
                  !.state.cash = @ - commission]

\* variant: a trade that nets exactly zero counted as a winner
IsWinnerOrFlat(net_pnl) == net_pnl >= 0

\* `if net_pnl > 0:` the trade is a winner, else a loser
IsWinner(net_pnl) == net_pnl > 0

_execute_exit(e, current_date, instrument_id, position, exit_price, reason, config) ==
    LET commission == config.commission_per_contract * Abs(position.quantity)
        fill == [kind |-> "exit", instrument_id |-> instrument_id,
                 fill_date |-> current_date,
                 side |-> IF position.quantity > 0 THEN "sell" ELSE "buy",
                 quantity |-> Abs(position.quantity), fill_price |-> exit_price,
                 commission |-> commission]
        realized_pnl == get_pnl(position, exit_price)
        net_pnl == realized_pnl - commission
        e1 == [e EXCEPT !.db.fills = Append(@, fill),
                        !.state.total_trades = @ + 1,
                        !.state.winning_trades = IF IsWinner(net_pnl) THEN @ + 1 ELSE @,
                        !.state.gross_profit = IF IsWinner(net_pnl) THEN @ + net_pnl ELSE @,
                        !.state.losing_trades = IF IsWinner(net_pnl) THEN @ ELSE @ + 1,
                        !.state.gross_loss = IF IsWinner(net_pnl) THEN @ ELSE @ + Abs(net_pnl),
                        !.state.cash = @ + realized_pnl - commission]
    IN  ExitRemovesPosition(e1, instrument_id)

(***************************************************************************)
(* Backtest engine: the steps of one trading day                           *)
(*                                                                         *)
(* rows[id] is <<>> when instrument id has no bar on the current date      *)
(* (current_date not in df.index) and <<row>> otherwise, row being the     *)
(* joined bar and feature record of that date.  A bar's open is read only  *)
(* as next_row['open'] when an entry is priced, so a row carries           *)
(* high/low/close and the features, and the open of the following row is   *)
(* handed to _process_signal as next_open.                                 *)
(***************************************************************************)
\* variant: the entry block guarded by the next trading day alone
EntryAllowedAnySize(contracts, next_date) == next_date # NoDate

\* the guard of the entry block: a size and a next trading day
EntryAllowed(contracts, next_date) == contracts > 0 /\ next_date # NoDate

\* the fill price: the next open moved against the trader by the slippage
EntryFillPrice(action, next_open, slippage_dollars) ==
    IF action = "entry_long" THEN next_open + slippage_dollars
    ELSE next_open - slippage_dollars

EntryQuantity(action, contracts) ==
    IF action = "entry_long" THEN contracts ELSE 0 - contracts

\* variant: every feature read from the current row
BuildFeaturesSameDay(current_row, prev_row) ==
    [atr_20 |-> current_row.atr_20, ma_50 |-> current_row.ma_50,
     ma_slope_10 |-> current_row.ma_slope_10,
     hh_20 |-> current_row.hh_20, ll_20 |-> current_row.ll_20,
     hh_10 |-> current_row.hh_10, ll_10 |-> current_row.ll_10]

\* the features dict handed to generate_signal
BuildFeatures(current_row, prev_row) ==
    [atr_20 |-> current_row.atr_20, ma_50 |-> current_row.ma_50,
     ma_slope_10 |-> current_row.ma_slope_10,
     hh_20 |-> prev_row.hh_20, ll_20 |-> prev_row.ll_20,
     hh_10 |-> current_row.hh_10, ll_10 |-> current_row.ll_10]

BarOf(row) == [high |-> row.high, low |-> row.low, close |-> row.close]

\* variant: the date itself when it is the last of the frame
_get_next_trading_day_or_same(current_date, df_dates) ==
    LET later == {d \in df_dates : d > current_date}
    IN  IF current_date \in df_dates /\ later # {}
        THEN CHOOSE d \in later : \A x \in later : d <= x
        ELSE current_date

\* NoDate when the date is the last of the frame
_get_next_trading_day(current_date, df_dates) ==
    LET later == {d \in df_dates : d > current_date}
    IN  IF current_date \in df_dates /\ later # {}
        THEN CHOOSE d \in later : \A x \in later : d <= x
        ELSE NoDate

\* one pass of `for inst_id, position in state.positions.items()`: items are the
\* positions the iterator started on, k the next one, to_close the ids appended
\* so far.  A dict iterator raises RuntimeError on its next step once the
\* dict's size has changed.
DictChangedSize == "dictionary changed size during iteration"

RECURSIVE StopLoop(_, _, _, _, _, _, _)
StopLoop(e, items, k, to_close, current_date, rows, config) ==
    IF e.error # NoError THEN [e |-> e, to_close |-> to_close]
    ELSE IF Len(e.state.positions) # Len(items)
    THEN [e |-> [e EXCEPT !.error = DictChangedSize],
          to_close |-> to_close]
    ELSE IF k > Len(items) THEN [e |-> e, to_close |-> to_close]
    ELSE
    LET position == items[k]
        inst_id == position.instrument_id
    IN  IF rows[inst_id] = <<>>
        THEN StopLoop(e, items, k + 1, to_close, current_date, rows, config)
        ELSE
        LET current_row == rows[inst_id][1]
            stop_hit == IF position.quantity > 0
                        THEN current_row.low <= position.stop_price
                        ELSE current_row.high >= position.stop_price
            exit_price == IF stop_hit THEN position.stop_price ELSE current_row.close
        IN  IF stop_hit
            THEN StopLoop(_execute_exit(e, current_date, inst_id, position, exit_price,
                                        "stop_hit", config),
                          items, k + 1, Append(to_close, inst_id), current_date, rows, config)
            ELSE StopLoop(e, items, k + 1, to_close, current_date, rows, config)

RECURSIVE DelAll(_, _)
\* for inst_id in positions_to_close: del state.positions[inst_id]
DelAll(e, ids) ==
    IF ids = <<>> \/ e.error # NoError THEN e
    ELSE DelAll(DelPositionOrRaise(e, ids[1]), Tail(ids))

_update_positions_and_check_stops(e, current_date, rows, config) ==
    LET r == StopLoop(e, e.state.positions, 1, <<>>, current_date, rows, config)
    IN  DelAll(r.e, r.to_close)

\* the bookkeeping of an exit signal, after the position was closed
RecordExit(strategy_state, action, current_date) ==
    [strategy_state EXCEPT
        !.last_exit_date = current_date,
        !.last_exit_direction = IF action \in {"exit_long", "stop_long"}
                                THEN "long" ELSE "short",
        !.direction = "none"]

\* variant: the direction of the entry is not recorded
EntryDirectionUnset(action) == "none"

\* TrendDirection.LONG if signal.action == SignalAction.ENTRY_LONG else
\* TrendDirection.SHORT
EntryDirection(action) == IF action = "entry_long" THEN "long" ELSE "short"

\* variant: the equity is marked anew from the cash at the call
equity_from_cash(st) == st.cash

\* state.equity as the entry branch reads it
equity_at_call(st) == st.equity

\* variant: only the positions whose entry is already filled are listed
positions_filled(positions, current_date) ==
    SelectSeq(positions, LAMBDA p : p.entry_date <= current_date)

\* state.positions.values() as the entry branch lists them on current_date
positions_values(positions, current_date) == positions

_process_signal(e, signal, instrument, current_date, config, df_dates, next_open) ==
    LET stored == signal.action \notin {"hold", "no_action"}
        e0 == IF stored
              THEN [e EXCEPT !.db.signals = Append(@,
                       [instrument_id |-> instrument.id, date |-> current_date,
                        signal_type |-> signal.action, price |-> signal.price,
                        stop_price |-> signal.stop_price, reason |-> signal.reason,
                        target_contracts |-> 0])]
              ELSE e
        st == e0.state
    IN  IF signal.action \in ExitActions THEN
            IF HasPosition(st.positions, instrument.id) THEN
                LET position == PositionOf(st.positions, instrument.id)
                    e1 == _execute_exit(e0, current_date, instrument.id, position,
                                        signal.price, "signal_exit", config)
                    e2 == DelPositionOrRaise(e1, instrument.id)
                IN  IF e2.error # NoError THEN e2
                    ELSE [e2 EXCEPT !.state.strategy_states[instrument.id] =
                                        RecordExit(@, signal.action, current_date)]
            ELSE e0
        ELSE IF signal.action \in EntryActions THEN
            LET open_positions == positions_values(st.positions, current_date)
                current_positions ==
                    [k \in 1..Len(open_positions) |->
                        [value |-> get_value(open_positions[k], signal.price),
                         symbol |-> open_positions[k].symbol]]
                vt == validate_trade(config, equity_at_call(st), st.peak_equity,
                          equity_at_call(st) - st.start_of_day_equity,
                          st.start_of_day_equity,
                          signal.price, signal.stop_price, instrument.tick_size,
                          instrument.multiplier, <<current_positions>>,
                          instrument.symbol)
                contracts == vt.position_size.contracts
                next_date == _get_next_trading_day(current_date, df_dates)
                e1 == IF EntryAllowed(contracts, next_date) THEN
                          LET slippage_dollars == config.slippage_ticks * instrument.tick_size
                              entry_price == EntryFillPrice(signal.action, next_open,
                                                            slippage_dollars)
                              quantity == EntryQuantity(signal.action, contracts)
                              ex == _execute_entry(e0, next_date, instrument, quantity,
                                                   entry_price, signal.stop_price, config)
                          IN  [ex EXCEPT !.state.strategy_states[instrument.id] =
                                  [@ EXCEPT !.direction = EntryDirection(signal.action),
                                            !.entry_price = entry_price,
                                            !.entry_date = next_date,
                                            !.stop_price = signal.stop_price,
                                            !.contracts = contracts]]
                      ELSE e0
            IN  \* latest_signal.target_contracts = position_size.contracts
                [e1 EXCEPT !.db.signals[Len(e1.db.signals)].target_contracts = contracts]
        ELSE e0

RECURSIVE SumPnl(_, _)
SumPnl(positions, rows) ==
    IF positions = <<>> THEN 0
    ELSE (IF rows[positions[1].instrument_id] = <<>> THEN 0
          ELSE get_pnl(positions[1], rows[positions[1].instrument_id][1].close))
         + SumPnl(Tail(positions), rows)

RECURSIVE SumExposure(_, _)
SumExposure(positions, rows) ==
    IF positions = <<>> THEN 0
    ELSE (IF rows[positions[1].instrument_id] = <<>> THEN 0
          ELSE Abs(get_value(positions[1], rows[positions[1].instrument_id][1].close)))
         + SumExposure(Tail(positions), rows)

\* variant: equity tracked as cash alone
SnapshotEquityCashOnly(cash, unrealized_pnl) == cash

\* state.equity = state.cash + unrealized_pnl
SnapshotEquity(cash, unrealized_pnl) == cash + unrealized_pnl

\* variant: the peak follows the equity
UpdatePeakToEquity(peak_equity, equity) == equity

\* if state.equity > state.peak_equity: state.peak_equity = state.equity
UpdatePeak(peak_equity, equity) == IF equity > peak_equity THEN equity ELSE peak_equity

\* variant: the drawdown as the signed return from the peak
DrawdownSigned(peak_equity, equity) ==
    IF peak_equity > 0 THEN Ratio(equity - peak_equity, peak_equity) ELSE Ratio(0, 1)

\* (peak - equity) / peak if peak > 0 else 0
Drawdown(peak_equity, equity) ==
    IF peak_equity > 0 THEN Ratio(peak_equity - equity, peak_equity) ELSE Ratio(0, 1)

_create_daily_snapshot(e, current_date, rows) ==
    IF e.error # NoError THEN e
    ELSE
    LET st == e.state
        unrealized_pnl == SumPnl(st.positions, rows)
        total_exposure == SumExposure(st.positions, rows)
        equity == SnapshotEquity(st.cash, unrealized_pnl)
        peak_equity == UpdatePeak(st.peak_equity, equity)
        snapshot == [date |-> current_date, equity |-> equity, cash |-> st.cash,
                     unrealized_pnl |-> unrealized_pnl,
                     realized_pnl |-> st.gross_profit - st.gross_loss,
                     daily_pnl |-> equity - st.start_of_day_equity,
                     drawdown |-> Drawdown(peak_equity, equity),
                     total_exposure |-> total_exposure,
                     num_positions |-> Len(st.positions)]
    IN  [e EXCEPT !.state.equity = equity, !.state.peak_equity = peak_equity,
                  !.db.snapshots = Append(@, snapshot)]

\* the call of generate_signal in the instrument loop: bars and features are
\* cut from the current and the previous row of the frame
LoopSignal(self, current_date, current_row, prev_row, position) ==
    generate_signal(self, current_date, BarOf(current_row), <<BarOf(prev_row)>>,
                    BuildFeatures(current_row, prev_row), position)

\* the instrument loop of _process_day over ids, the keys of instrument_data in
\* order; data = [dates, last_row, instrument] per id
RECURSIVE SignalLoop(_, _, _, _, _, _, _)
SignalLoop(e, ids, current_date, rows, next_open, data, config) ==
    IF ids = <<>> \/ e.error # NoError THEN e
    ELSE
    LET inst_id == ids[1]
        rest == Tail(ids)
        df_dates == data[inst_id].dates
        current_idx == Cardinality({d \in df_dates : d < current_date})
    IN  IF rows[inst_id] = <<>> \/ current_idx = 0
        THEN SignalLoop(e, rest, current_date, rows, next_open, data, config)
        ELSE
        LET current_row == rows[inst_id][1]
            prev_row == data[inst_id].last_row[1]
            strategy_signal == LoopSignal(config, current_date, current_row, prev_row,
                                          e.state.strategy_states[inst_id])
        IN  SignalLoop(_process_signal(e, strategy_signal, data[inst_id].instrument,
                                       current_date, config, df_dates, next_open[inst_id]),
                       rest, current_date, rows, next_open, data, config)

_process_day(e, ids, current_date, rows, next_open, data, config) ==
    LET e1 == [e EXCEPT !.state.start_of_day_equity = e.state.equity]
        e2 == _update_positions_and_check_stops(e1, current_date, rows, config)
        e3 == SignalLoop(e2, ids, current_date, rows, next_open, data, config)
    IN  _create_daily_snapshot(e3, current_date, rows)

(***************************************************************************)
(* Backtest engine: final metrics                                          *)
(***************************************************************************)
RECURSIVE MaxDrawdown(_)
\* max(drawdowns)
MaxDrawdown(drawdowns) ==
    IF Len(drawdowns) = 1 THEN drawdowns[1]
    ELSE LET m == MaxDrawdown(Tail(drawdowns))
         IN  IF RatioLt(m, drawdowns[1]) THEN drawdowns[1] ELSE m

RECURSIVE DrawdownDurationLoop(_, _, _, _, _)
\* the loop over enumerate(drawdowns), i counted from 0 as in the source
DrawdownDurationLoop(drawdowns, i, in_drawdown, dd_start, max_dd_days) ==
    IF i >= Len(drawdowns) THEN max_dd_days
    ELSE LET dd == drawdowns[i + 1]
         IN  IF dd.num > 0 /\ ~in_drawdown
             THEN DrawdownDurationLoop(drawdowns, i + 1, TRUE, i, max_dd_days)
             ELSE IF dd.num = 0 /\ in_drawdown
             THEN DrawdownDurationLoop(drawdowns, i + 1, FALSE, dd_start,
                      IF i - dd_start > max_dd_days THEN i - dd_start ELSE max_dd_days)
             ELSE DrawdownDurationLoop(drawdowns, i + 1, in_drawdown, dd_start, max_dd_days)

\* CAGR, Sharpe and Sortino are floating-point statistics of the equity series
\* and are not part of the record
_calculate_final_metrics(st, snapshots, initial_capital) ==
    IF snapshots = <<>> THEN <<>>
    ELSE
    LET drawdowns == [k \in 1..Len(snapshots) |-> snapshots[k].drawdown]
    IN  <<[final_equity |-> st.equity,
           total_return |-> Ratio(st.equity - initial_capital, initial_capital),
           max_drawdown |-> MaxDrawdown(drawdowns),
           max_drawdown_duration |-> DrawdownDurationLoop(drawdowns, 0, FALSE, 0, 0),
           total_trades |-> st.total_trades,
           win_rate |-> IF st.total_trades > 0
                        THEN Ratio(st.winning_trades, st.total_trades) ELSE Ratio(0, 1),
           profit_factor |-> IF st.gross_loss > 0
                             THEN Ratio(st.gross_profit, st.gross_loss) ELSE Ratio(0, 1)]>>

(***************************************************************************)
(* The inputs of a run: configuration, instruments, bars and features      *)
(***************************************************************************)
\* the calendar of a run is 1..MaxDays
MaxDays == 4

InstrumentIds == {1, 2}

\* the instruments table: the two symbols of the correlated group.  Prices are
\* in ticks, so tick_size is 1 and multiplier is the dollar value of one tick.
Instrument(id) ==
    IF id = 1 THEN [id |-> 1, symbol |-> "ES", tick_size |-> 1, multiplier |-> 5]
    ELSE [id |-> 2, symbol |-> "NQ", tick_size |-> 1, multiplier |-> 2]

\* BacktestConfig with the defaults of its fields, for an account of 10000
\* dollars paying 2 dollars commission per contract
DefaultConfig ==
    [initial_capital |-> 10000,
     stop_atr_multiple |-> 2, cooldown_days |-> 3,
     risk_per_trade |-> Ratio(1, 200),
     max_contracts_per_instrument |-> <<>>,
     max_gross_exposure |-> <<>>,
     max_correlated_exposure |-> <<>>,
     slippage_ticks |-> 1, commission_per_contract |-> 2,
     drawdown_warning_pct |-> Ratio(1, 10),
     drawdown_halt_pct |-> Ratio(3, 20),
     daily_loss_limit_pct |-> Ratio(1, 50)]

\* the configurations runs are started with: the defaults, a gross exposure cap
\* of four fifths of the equity, half the equity risked per trade, and a higher
\* commission
Configs ==
    {DefaultConfig,
     [DefaultConfig EXCEPT !.max_gross_exposure = <<Ratio(4, 5)>>],
     [DefaultConfig EXCEPT !.risk_per_trade = Ratio(1, 2)],
     [DefaultConfig EXCEPT !.commission_per_contract = 5]}

Row(b, h, l, c, atr, ma, slope, hh20, ll20, hh10, ll10) ==
    [high |-> b + h, low |-> b + l, close |-> b + c, atr_20 |-> atr,
     ma_50 |-> b + ma, ma_slope_10 |-> slope,
     hh_20 |-> b + hh20, ll_20 |-> b + ll20, hh_10 |-> b + hh10, ll_10 |-> b + ll10]

\* The joined bar/feature rows a date can hold, around a base price b.  ATR and
\* MA are always defined (rows without them are not persisted); the slope is NaN
\* while its window is not full.  The features are the ones stored at the last
\* recompute, so they may lag the bar (Stale: a bar ingested again afterwards).
Quiet(b)    == Row(b,  1, -1,  0, 1,  0,   0,  2, -2,  1, -1)
Warmup(b)   == Row(b,  4,  0,  4, 1,  1, NaN,  4, -2,  4, -1)
Up(b)       == Row(b,  4,  0,  4, 1,  1,   1,  4, -2,  4, -1)
UpFlat(b)   == Row(b,  4,  0,  4, 0,  1,   1,  4, -2,  4, -1)
Down(b)     == Row(b,  0, -4, -4, 1, -1,  -1,  2, -4,  1, -4)
HighHold(b) == Row(b, 10,  6,  9, 1,  3,   1, 10, -2, 10,  5)
Stale(b)    == Row(b, 10,  5,  7, 1,  3,   1, 10, -2, 10,  8)
Reversal(b) == Row(b,  8,  1,  2, 1,  2,   1,  8, -2,  8,  1)

BasePrice(id) == 100 * id

Catalogue(id) ==
    IF id = 1
    THEN {Quiet(BasePrice(id)), Warmup(BasePrice(id)), Up(BasePrice(id)),
          UpFlat(BasePrice(id)), Down(BasePrice(id)), HighHold(BasePrice(id)),
          Stale(BasePrice(id)), Reversal(BasePrice(id))}
    ELSE {Quiet(BasePrice(id)), Up(BasePrice(id)), Stale(BasePrice(id))}

\* variant: a row is read for the instrument on every date of the run, its
\* frame holding the date or not
RowsOnAnyDate(id, current_date, frame_dates) ==
    IF frame_dates = {} THEN {<<>>}
    ELSE IF \A d \in frame_dates : current_date <= d THEN {<<Quiet(BasePrice(id))>>}
    ELSE {<<r>> : r \in Catalogue(id)}

\* the first row of a frame is never traded on (it only serves as the previous
\* bar of the second): it is the quiet one
RowsOn(id, current_date, frame_dates) ==
    IF current_date \notin frame_dates THEN {<<>>}
    ELSE IF \A d \in frame_dates : current_date <= d THEN {<<Quiet(BasePrice(id))>>}
    ELSE {<<r>> : r \in Catalogue(id)}

\* the next bar opens this many ticks above the close
Gaps == {1, 3}

\* the date sets of the two frames: complete, with a hole on the second or on
\* the third date, too short to trade
FrameDates(id) ==
    IF id = 1 THEN {1..MaxDays, (1..MaxDays) \ {2}, (1..MaxDays) \ {3}, {1}}
    ELSE {1..MaxDays, 2..MaxDays}

RECURSIVE SortedSeq(_)
\* sorted(S)
SortedSeq(S) ==
    IF S = {} THEN <<>>
    ELSE LET m == CHOOSE x \in S : \A y \in S : x <= y
         IN  <<m>> \o SortedSeq(S \ {m})

(***************************************************************************)
(* run_backtest as a state machine                                         *)
(***************************************************************************)
VARIABLES
    status,           \* backtest_run.status
    error_message,    \* backtest_run.error_message
    pc,               \* where run_backtest stands
    config,           \* the BacktestConfig of the run
    found,            \* ids of the active instruments matching config.instruments
    dates,            \* dates[id]: the dates of the instrument's frame in range
    instrument_data,  \* keys of instrument_data, in insertion order
    all_dates,        \* the sorted union of the frames' dates
    day,              \* number of dates the event loop has processed
    state,            \* the BacktestState
    db,               \* rows of this run: signals, fills, snapshots
    last_row,         \* last_row[id]: the latest row of the frame read so far
    metrics,          \* the final metrics, <<>> until computed
    call,             \* the arguments of a direct call of the strategy engine
    result            \* <<>>, or <<v>> once the call returned v

run_vars == <<status, error_message, pc, config, found, dates, instrument_data,
              all_dates, day, state, db, last_row, metrics>>

vars == <<run_vars, call, result>>

\* BacktestState(equity=c, cash=c, peak_equity=c, start_of_day_equity=c)
BacktestState(capital, ids) ==
    [equity |-> capital, cash |-> capital, peak_equity |-> capital,
     positions |-> <<>>, strategy_states |-> [id \in ids |-> PositionState],
     start_of_day_equity |-> capital,
     total_trades |-> 0, winning_trades |-> 0, losing_trades |-> 0,
     gross_profit |-> 0, gross_loss |-> 0]

\* a run as create_backtest stores it; the BacktestState is built by Prepare,
\* until then the variable holds an empty one
Init ==
    /\ status = "pending"
    /\ error_message = ""
    /\ pc = "created"
    /\ config \in Configs
    /\ found \in {{}, {1}, {1, 2}}
    /\ dates \in {f \in [InstrumentIds -> SUBSET (1..MaxDays)] :
                     \A id \in InstrumentIds : f[id] \in FrameDates(id)}
    /\ instrument_data = <<>>
    /\ all_dates = <<>>
    /\ day = 0
    /\ state = BacktestState(0, {})
    /\ db = [signals |-> <<>>, fills |-> <<>>, snapshots |-> <<>>]
    /\ last_row = [id \in InstrumentIds |-> <<>>]
    /\ metrics = <<>>
    /\ call = <<>>
    /\ result = <<>>

\* backtest_run.status = "running"; self.db.commit()
Start ==
    /\ pc = "created"
    /\ status' = "running"
    /\ pc' = "prepare"
    /\ UNCHANGED <<error_message, config, found, dates, instrument_data, all_dates,
                   day, state, db, last_row, metrics, call, result>>

\* variant: a frame of a single row is kept
HasAnyRow(rows) == rows >= 1

\* a frame is kept unless df.empty or len(df) < 2
HasEnoughRows(rows) == rows >= 2

\* instruments and frames are loaded, the state is created; a run with nothing
\* to trade raises ValueError, caught by the handler at the end of run_backtest
Prepare ==
    /\ pc = "prepare"
    /\ LET instruments == SortedSeq(found)
           loaded == SelectSeq(instruments, LAMBDA id : HasEnoughRows(Cardinality(dates[id])))
       IN  IF instruments = <<>> THEN
               /\ status' = "failed"
               /\ error_message' = "No active instruments found for symbols"
               /\ pc' = "done"
               /\ UNCHANGED <<instrument_data, all_dates, state>>
           ELSE IF loaded = <<>> THEN
               /\ status' = "failed"
               /\ error_message' = "No data available for selected instruments and date range"
               /\ pc' = "done"
               /\ UNCHANGED <<instrument_data, all_dates, state>>
           ELSE
               /\ instrument_data' = loaded
               /\ all_dates' = SortedSeq(UNION {dates[loaded[k]] : k \in 1..Len(loaded)})
               /\ state' = BacktestState(config.initial_capital,
                                         {loaded[k] : k \in 1..Len(loaded)})
               /\ pc' = "loop"
               /\ UNCHANGED <<status, error_message>>
    /\ UNCHANGED <<config, found, dates, day, db, last_row, metrics, call, result>>

\* variant: the handler rolls the session back, the rows of the run are lost
session_rollback(pending) == [signals |-> <<>>, fills |-> <<>>, snapshots |-> <<>>]

\* self.db.commit() in the except block of run_backtest: the rows added to the
\* session since the last commit are stored with the failed status
session_commit(pending) == pending

\* one iteration of the event loop: _process_day on the next date, with the
\* rows that date holds; an exception out of _process_day reaches the handler
\* of run_backtest, which sets the status and the message, commits and raises
ProcessDay ==
    /\ pc = "loop"
    /\ day < Len(all_dates)
    /\ LET current_date == all_dates[day + 1]
           ids == {instrument_data[k] : k \in 1..Len(instrument_data)}
           FrameOf(id) == IF id \in ids THEN dates[id] ELSE {}
       IN  \E r1 \in RowsOn(1, current_date, FrameOf(1)) :
           \E r2 \in RowsOn(2, current_date, FrameOf(2)) :
           \E gap \in Gaps :
               LET rows == [id \in InstrumentIds |-> IF id = 1 THEN r1 ELSE r2]
                   next_open == [id \in InstrumentIds |->
                                    IF rows[id] = <<>> THEN 0
                                    ELSE rows[id][1].close + gap]
                   data == [id \in ids |-> [dates |-> dates[id],
                                            last_row |-> last_row[id],
                                            instrument |-> Instrument(id)]]
                   e == _process_day([state |-> state, db |-> db, error |-> NoError],
                                     instrument_data, current_date, rows, next_open,
                                     data, config)
               IN  /\ state' = e.state
                   /\ db' = IF e.error # NoError THEN session_commit(e.db) ELSE e.db
                   /\ last_row' = [id \in InstrumentIds |->
                                      IF rows[id] = <<>> THEN last_row[id] ELSE rows[id]]
                   /\ IF e.error # NoError
                      THEN /\ status' = "failed"
                           /\ error_message' = e.error
                           /\ pc' = "done"
                           /\ UNCHANGED day
                      ELSE /\ day' = day + 1
                           /\ UNCHANGED <<status, error_message, pc>>
    /\ UNCHANGED <<config, found, dates, instrument_data, all_dates, metrics,
                   call, result>>

\* variant: the loop left after its first date
LoopDoneAfterFirst(i, n) == i >= 1

\* `for i, current_date in enumerate(all_dates)` is exhausted
LoopDone(i, n) == i = n

\* after the loop: the final metrics, then status completed
Complete ==
    /\ pc = "loop"
    /\ LoopDone(day, Len(all_dates))
    /\ metrics' = _calculate_final_metrics(state, db.snapshots, config.initial_capital)
    /\ status' = "completed"
    /\ pc' = "done"
    /\ UNCHANGED <<error_message, config, found, dates, instrument_data, all_dates,
                   day, state, db, last_row, call, result>>

Next == Start \/ Prepare \/ ProcessDay \/ Complete

Spec == Init /\ [][Next]_vars

\* ProcessDay can be taken exactly in these states: the rows of a date are
\* never an empty choice, and each of its steps moves day or pc
LoopPending == pc = "loop" /\ day < Len(all_dates)

\* the background task runs run_backtest, a synchronous loop over finitely
\* many dates, to its end: a step that can be taken is taken.  For ProcessDay
\* weak fairness is stated on its guard, WF_vars(ProcessDay) being
\* []<>~ENABLED <<ProcessDay>>_vars \/ []<><<ProcessDay>>_vars and the loop
\* never pending again once it was left
FairSpec ==
    /\ Spec
    /\ WF_vars(Start)
    /\ WF_vars(Prepare)
    /\ []<>(~LoopPending)
    /\ WF_vars(Complete)

(***************************************************************************)
(* The strategy engine called directly (its unit tests, and                *)
(* backtest_single_instrument): one call per behaviour, arguments drawn     *)
(* from the sets below, the run of the backtest left untouched.            *)
(***************************************************************************)
\* prices of the direct calls are 1..MaxPrice, dates 1..MaxDate
MaxPrice == 3
MaxDate == 8

Prices == 1..MaxPrice

\* a 7-day week starting on a Monday: days 6 and 7 of each week have no bar
IsTradingDay(d) == d % 7 \notin {6, 0}

\* bars with low <= close <= high
Bars == {b \in [high : Prices, low : Prices, close : Prices] :
            b.low <= b.close /\ b.close <= b.high}

\* a rolling high and low over one window: both NaN until the window is full
Windows == {<<NaN, NaN>>} \cup {w \in Prices \X Prices : w[2] <= w[1]}

Features(ma_50, ma_slope_10, long_window, short_window) ==
    [atr_20 |-> 1, ma_50 |-> ma_50, ma_slope_10 |-> ma_slope_10,
     hh_20 |-> long_window[1], ll_20 |-> long_window[2],
     hh_10 |-> short_window[1], ll_10 |-> short_window[2]]

\* calls with a position open, on features that would trigger an entry if flat
OpenCalls ==
    {[op |-> "generate_signal", self |-> DefaultConfig, current_date |-> MaxDate,
      current_bar |-> bar, prev_bar |-> prev,
      features |-> Features(2, slope, <<2, 2>>, w10),
      position |-> [PositionState EXCEPT !.direction = dir, !.stop_price = stop,
                                         !.entry_price = 2, !.entry_date = 1,
                                         !.contracts = 1]] :
        bar \in Bars, prev \in {<<>>, <<[high |-> 2, low |-> 2, close |-> 2]>>},
        slope \in {-1, 1}, w10 \in Windows, dir \in {"long", "short"}, stop \in Prices}

\* calls with no position: every trend, every breakout, every exit record
FlatCalls ==
    {[op |-> "generate_signal", self |-> DefaultConfig, current_date |-> MaxDate,
      current_bar |-> [high |-> close, low |-> close, close |-> close],
      prev_bar |-> prev,
      features |-> Features(ma, slope, w20, <<NaN, NaN>>),
      position |-> [PositionState EXCEPT !.last_exit_date = x[1],
                                         !.last_exit_direction = x[2]]] :
        close \in Prices,
        prev \in {<<>>} \cup {<<[high |-> c, low |-> c, close |-> c]>> : c \in Prices},
        ma \in Prices \cup {NaN}, slope \in {-1, 0, 1, NaN}, w20 \in Windows,
        x \in {<<NoDate, "none">>} \cup ((1..MaxDate) \X {"long", "short"})}

\* calls with no position and no ATR yet (features.get('atr_20') is NaN), the
\* other features defined or not
WarmupCalls ==
    {[op |-> "generate_signal", self |-> DefaultConfig, current_date |-> MaxDate,
      current_bar |-> [high |-> close, low |-> close, close |-> close],
      prev_bar |-> prev,
      features |-> [Features(ma, slope, w20, <<NaN, NaN>>) EXCEPT !.atr_20 = NaN],
      position |-> PositionState] :
        close \in Prices,
        prev \in {<<>>} \cup {<<[high |-> c, low |-> c, close |-> c]>> : c \in Prices},
        ma \in Prices \cup {NaN}, slope \in {-1, 1, NaN}, w20 \in Windows}

\* calls as the event loop makes them, on two consecutive rows of a frame
LoopCalls ==
    {[op |-> "loop", self |-> DefaultConfig, current_date |-> MaxDate,
      current_row |-> current_row, prev_row |-> prev_row,
      position |-> [PositionState EXCEPT !.last_exit_date = x[1],
                                         !.last_exit_direction = x[2]]] :
        current_row \in Catalogue(1), prev_row \in Catalogue(1),
        x \in {<<NoDate, "none">>, <<MaxDate - 1, "long">>, <<MaxDate - 1, "short">>}}

\* is_in_cooldown on the trading days of the calendar
CooldownCalls ==
    {[op |-> "is_in_cooldown", self |-> [DefaultConfig EXCEPT !.cooldown_days = n],
      current_date |-> d, last_exit_date |-> x, last_exit_direction |-> xd,
      entry_direction |-> ed] :
        n \in {1, 3},
        d \in {t \in 1..MaxDate : IsTradingDay(t)},
        x \in {NoDate} \cup {t \in 1..MaxDate : IsTradingDay(t)},
        xd \in {"none", "long", "short"}, ed \in {"long", "short"}}

InitSignal ==
    /\ status = "pending"
    /\ error_message = ""
    /\ pc = "created"
    /\ config = DefaultConfig
    /\ found = {}
    /\ dates = [id \in InstrumentIds |-> {}]
    /\ instrument_data = <<>>
    /\ all_dates = <<>>
    /\ day = 0
    /\ state = BacktestState(0, {})
    /\ db = [signals |-> <<>>, fills |-> <<>>, snapshots |-> <<>>]
    /\ last_row = [id \in InstrumentIds |-> <<>>]
    /\ metrics = <<>>
    /\ call \in OpenCalls \cup FlatCalls \cup WarmupCalls \cup LoopCalls
                  \cup {c \in CooldownCalls : c.last_exit_date <= c.current_date}
    /\ result = <<>>

\* variant: the engine records an entry in the PositionState it was given
PositionAfterCallEntered(position, signal) ==
    IF signal.action \in EntryActions
    THEN [position EXCEPT !.direction = IF signal.action = "entry_long"
                                        THEN "long" ELSE "short",
                          !.entry_price = signal.price,
                          !.stop_price = signal.stop_price]
    ELSE position

\* the PositionState object after generate_signal returned: the method only
\* reads it
PositionAfterCall(position, signal) == position

\* a call, and a second call with the same arguments on the same objects
CallGenerateSignal ==
    /\ Len(result) < 2
    /\ call.op = "generate_signal"
    /\ LET signal == generate_signal(call.self, call.current_date, call.current_bar,
                                     call.prev_bar, call.features, call.position)
       IN  /\ result' = Append(result, signal)
           /\ call' = [call EXCEPT !.position = PositionAfterCall(@, signal)]
    /\ UNCHANGED run_vars

CallLoopSignal ==
    /\ result = <<>>
    /\ call.op = "loop"
    /\ result' = <<LoopSignal(call.self, call.current_date, call.current_row,
                              call.prev_row, call.position)>>
    /\ UNCHANGED <<run_vars, call>>

CallIsInCooldown ==
    /\ result = <<>>
    /\ call.op = "is_in_cooldown"
    /\ result' = <<is_in_cooldown(call.self, call.current_date, call.last_exit_date,
                                  call.last_exit_direction, call.entry_direction)>>
    /\ UNCHANGED <<run_vars, call>>

NextSignal == CallGenerateSignal \/ CallLoopSignal \/ CallIsInCooldown

SpecSignal == InitSignal /\ [][NextSignal]_vars

(***************************************************************************)
(* The risk engine called directly (its unit tests): one call per           *)
(* behaviour, arguments drawn from the sets below.                          *)
(***************************************************************************)
\* equities on both sides of the 10% and 15% drawdown limits of a peak of 100,
\* daily P&L on both sides of the 2% loss limit of a start of day of 100
RiskStateCalls ==
    {[op |-> "calculate_risk_state", self |-> DefaultConfig,
      current_equity |-> eq, peak_equity |-> peak, daily_pnl |-> pnl,
      start_of_day_equity |-> sod] :
        eq \in {0, 80, 85, 86, 90, 91, 100, 110}, peak \in {0, 100},
        pnl \in {-5, -3, -2, -1, 0, 1}, sod \in {0, 100}}

SizeCalls ==
    {[op |-> "calculate_position_size",
      self |-> [DefaultConfig EXCEPT !.risk_per_trade = rpt,
                                     !.max_contracts_per_instrument = cap],
      equity |-> eq, entry_price |-> 10, stop_price |-> stop,
      tick_size |-> 1, multiplier |-> mult,
      risk_state |-> [risk_multiplier |-> rm]] :
        rpt \in {Ratio(1, 200), Ratio(1, 2)}, cap \in {<<>>, <<0>>, <<3>>},
        eq \in {-100, 0, 1000, 10000}, stop \in {7, 8, 10, 12}, mult \in {2, 5},
        rm \in {Ratio(0, 1), Ratio(1, 2), Ratio(1, 1)}}

\* books of open positions as validate_trade receives them: dollar value
\* (negative for a short) and symbol
Books(v) ==
    {<<>>,
     <<[value |-> v, symbol |-> "ES"]>>,
     <<[value |-> 0 - v, symbol |-> "ES"]>>,
     <<[value |-> v, symbol |-> "YM"]>>,
     <<[value |-> v, symbol |-> "ES"], [value |-> 0 - v, symbol |-> "NQ"]>>,
     <<[value |-> v, symbol |-> "ES"], [value |-> v, symbol |-> "YM"]>>}

ExposureCalls ==
    {[op |-> "check_exposure_limits",
      self |-> [DefaultConfig EXCEPT !.max_gross_exposure = gross,
                                     !.max_correlated_exposure = corr],
      current_positions |-> book, new_position_value |-> v, equity |-> 1000,
      instrument_symbol |-> sym] :
        gross \in {<<>>, <<Ratio(1, 2)>>},
        corr \in {<<>>, <<Ratio(1, 2)>>, <<Ratio(2, 5)>>},
        book \in Books(300), v \in {100, 200, 201, -200, -201, 500},
        sym \in {"ES", "NQ", "YM"}}

ValidateCalls ==
    {[op |-> "validate_trade",
      self |-> [DefaultConfig EXCEPT !.risk_per_trade = rpt,
                                     !.max_gross_exposure = gross,
                                     !.max_correlated_exposure = corr],
      equity |-> eq, peak_equity |-> 10000, daily_pnl |-> pnl,
      start_of_day_equity |-> 10000, entry_price |-> 10, stop_price |-> stop,
      tick_size |-> 1, multiplier |-> 5, current_positions |-> positions,
      instrument_symbol |-> sym] :
        rpt \in {Ratio(1, 200), Ratio(1, 2)},
        gross \in {<<>>, <<Ratio(1, 2)>>}, corr \in {<<>>, <<Ratio(2, 5)>>},
        eq \in {1000, 9000, 10000}, pnl \in {0, -300}, stop \in {8, 10},
        positions \in {<<>>} \cup {<<book>> : book \in Books(4800)},
        sym \in {"ES", "YM"}}

InitRisk ==
    /\ status = "pending"
    /\ error_message = ""
    /\ pc = "created"
    /\ config = DefaultConfig
    /\ found = {}
    /\ dates = [id \in InstrumentIds |-> {}]
    /\ instrument_data = <<>>
    /\ all_dates = <<>>
    /\ day = 0
    /\ state = BacktestState(0, {})
    /\ db = [signals |-> <<>>, fills |-> <<>>, snapshots |-> <<>>]
    /\ last_row = [id \in InstrumentIds |-> <<>>]
    /\ metrics = <<>>
    /\ call \in RiskStateCalls \cup SizeCalls \cup ExposureCalls \cup ValidateCalls
    /\ result = <<>>

CallCalculateRiskState ==
    /\ result = <<>>
    /\ call.op = "calculate_risk_state"
    /\ result' = <<calculate_risk_state(call.self, call.current_equity,
                      call.peak_equity, call.daily_pnl, call.start_of_day_equity)>>
    /\ UNCHANGED <<run_vars, call>>

CallCalculatePositionSize ==
    /\ result = <<>>
    /\ call.op = "calculate_position_size"
    /\ result' = <<calculate_position_size(call.self, call.equity, call.entry_price,
                      call.stop_price, call.tick_size, call.multiplier,
                      call.risk_state)>>
    /\ UNCHANGED <<run_vars, call>>

CallCheckExposureLimits ==
    /\ result = <<>>
    /\ call.op = "check_exposure_limits"
    /\ result' = <<check_exposure_limits(call.self, call.current_positions,
                      call.new_position_value, call.equity, call.instrument_symbol)>>
    /\ UNCHANGED <<run_vars, call>>

CallValidateTrade ==
    /\ result = <<>>
    /\ call.op = "validate_trade"
    /\ result' = <<validate_trade(call.self, call.equity, call.peak_equity,
                      call.daily_pnl, call.start_of_day_equity, call.entry_price,
                      call.stop_price, call.tick_size, call.multiplier,
                      call.current_positions, call.instrument_symbol)>>
    /\ UNCHANGED <<run_vars, call>>

NextRisk ==
    \/ CallCalculateRiskState
    \/ CallCalculatePositionSize
    \/ CallCheckExposureLimits
    \/ CallValidateTrade

SpecRisk == InitRisk /\ [][NextRisk]_vars

(***************************************************************************)
(* Properties of the backtest run (specification Spec)                     *)
(***************************************************************************)
Signals == {db.signals[k] : k \in 1..Len(db.signals)}
Fills == {db.fills[k] : k \in 1..Len(db.fills)}
Snapshots == {db.snapshots[k] : k \in 1..Len(db.snapshots)}
EntryFills == {f \in Fills : f.kind = "entry"}
ExitFills == {f \in Fills : f.kind = "exit"}

\* the stored signal is the last one stored for its instrument
IsLastSignal(k) ==
    \A j \in (k + 1)..Len(db.signals) :
        db.signals[j].instrument_id # db.signals[k].instrument_id

\* C1: an exit or stop signal for an instrument with an open position closes
\* the position at the signal's price, counts the trade, records
\* last_exit_date and last_exit_direction, clears the direction, removes the
\* position, and the day is processed to its end (its snapshot is written).
C1_ExitSignalClosesPosition ==
    \A k \in 1..Len(db.signals) :
        LET s == db.signals[k]
            ss == state.strategy_states[s.instrument_id]
        IN  (s.signal_type \in ExitActions /\ IsLastSignal(k)) =>
               /\ \E f \in ExitFills : /\ f.instrument_id = s.instrument_id
                                       /\ f.fill_date = s.date
                                       /\ f.fill_price = s.price
               /\ state.total_trades >= 1
               /\ state.winning_trades + state.losing_trades = state.total_trades
               /\ ss.last_exit_date = s.date
               /\ ss.last_exit_direction =
                     (IF s.signal_type \in {"exit_long", "stop_long"} THEN "long" ELSE "short")
               /\ ss.direction = "none"
               /\ ~HasPosition(state.positions, s.instrument_id)
               /\ \E sn \in Snapshots : sn.date = s.date

\* an exit fill made by the start-of-day stop check: no exit signal goes with it
IsStopCheckFill(f) ==
    /\ f.kind = "exit"
    /\ ~\E s \in Signals : /\ s.instrument_id = f.instrument_id
                           /\ s.date = f.fill_date
                           /\ s.signal_type \in ExitActions

\* C2: a position whose catastrophe stop is hit at the start of the day is
\* exited at its stop price, its P&L goes to cash, its slot is released, and
\* the run continues with the rest of that day (its snapshot is written).
C2_StopHitExitsAndContinues ==
    \A f \in Fills :
        IsStopCheckFill(f) =>
            /\ f.fill_price = state.strategy_states[f.instrument_id].stop_price
            /\ ~\E p \in {state.positions[k] : k \in 1..Len(state.positions)} :
                    p.instrument_id = f.instrument_id /\ p.entry_date < f.fill_date
            /\ \E sn \in Snapshots : sn.date = f.fill_date

\* C3: an entry decided on day D is executed on the next trading day: while no
\* fill is dated on or before a day, that day's snapshot shows the initial
\* cash, no position, no exposure and no unrealized P&L, and after a day is
\* processed no open position has an entry date later than that day.
C3_EntryWaitsForNextDay ==
    /\ \A sn \in Snapshots :
          (~\E f \in Fills : f.fill_date <= sn.date) =>
              /\ sn.cash = config.initial_capital
              /\ sn.num_positions = 0
              /\ sn.total_exposure = 0
              /\ sn.unrealized_pnl = 0
    /\ \A k \in 1..Len(state.positions) :
          db.snapshots # <<>> =>
              state.positions[k].entry_date <= db.snapshots[Len(db.snapshots)].date

\* C4: in every daily snapshot equity = cash + unrealized_pnl exactly, and the
\* state's equity is the equity of the latest snapshot.
C4_SnapshotEquityIsCashPlusUnrealized ==
    /\ \A sn \in Snapshots : sn.equity = sn.cash + sn.unrealized_pnl
    /\ db.snapshots # <<>> => state.equity = db.snapshots[Len(db.snapshots)].equity

C4_Witness ==
    \E sn \in Snapshots : sn.unrealized_pnl # 0 /\ sn.cash # config.initial_capital

\* the largest of a non-empty set of numbers
MaxOf(S) == CHOOSE x \in S : \A y \in S : y <= x

\* C5: peak_equity never decreases from one step to the next, is never below
\* the equity, and is the largest equity seen so far, the initial capital
\* included.
C5_PeakEquityMonotone ==
    /\ [](state.peak_equity >= state.equity)
    /\ [](pc \in {"loop", "done"} /\ state.peak_equity > 0 =>
             state.peak_equity =
                 MaxOf({config.initial_capital} \cup {sn.equity : sn \in Snapshots}))
    /\ [][state'.peak_equity >= state.peak_equity]_vars

C5_Witness ==
    /\ pc \in {"loop", "done"}
    /\ state.peak_equity > config.initial_capital
    /\ state.equity < state.peak_equity \/ \E sn \in Snapshots : sn.equity < config.initial_capital

\* C6: in every daily snapshot the drawdown is at least 0, and it is below 1
\* exactly when the equity of the snapshot is positive.
C6_DrawdownRange ==
    \A sn \in Snapshots :
        /\ sn.drawdown.den > 0
        /\ sn.drawdown.num >= 0
        /\ sn.equity > 0 <=> sn.drawdown.num < sn.drawdown.den

C6_Witness ==
    \E sn \in Snapshots : 0 < sn.drawdown.num /\ sn.drawdown.num < sn.drawdown.den

\* C6 as stated: every snapshot has 0 <= drawdown < 1, whatever the losses.
C6_DrawdownBelowOne ==
    \A sn \in Snapshots : 0 <= sn.drawdown.num /\ sn.drawdown.num < sn.drawdown.den

\* the entry signal an entry fill comes from: same instrument, stored on the
\* trading day before the fill date
IsSignalOf(s, f) ==
    /\ s.instrument_id = f.instrument_id
    /\ s.signal_type \in EntryActions
    /\ _get_next_trading_day(s.date, dates[s.instrument_id]) = f.fill_date

\* C7: every entry fill comes from an entry signal for which validate_trade
\* returned a positive contract count (kept in target_contracts) and has
\* exactly that quantity, on the side of the signal; an entry signal sized 0
\* opens nothing; every open position is the one its entry fill opened.
C7_ValidateTradeGatesEntries ==
    /\ \A f \in EntryFills :
          \E s \in Signals : /\ IsSignalOf(s, f)
                             /\ s.target_contracts > 0
                             /\ f.quantity = s.target_contracts
                             /\ f.side = (IF s.signal_type = "entry_long" THEN "buy" ELSE "sell")
    /\ \A s \in Signals :
          (s.signal_type \in EntryActions /\ s.target_contracts = 0) =>
              ~\E f \in EntryFills : IsSignalOf(s, f)
    /\ \A k \in 1..Len(state.positions) :
          \E f \in EntryFills : /\ f.instrument_id = state.positions[k].instrument_id
                                /\ f.fill_date = state.positions[k].entry_date
                                /\ f.quantity = Abs(state.positions[k].quantity)

C7_Witness ==
    /\ \E s \in Signals : s.signal_type \in EntryActions /\ s.target_contracts = 0
    /\ \E f \in EntryFills : f.quantity > 0
    /\ state.positions # <<>>

(***************************************************************************)
(* Properties of the strategy engine (specification SpecSignal)            *)
(***************************************************************************)
\* C8: with a position open, generate_signal returns the stop at the stop
\* price when the bar reaches the stop, even if the rule exit holds too;
\* otherwise the rule exit at the close when the close is beyond the short
\* window; otherwise HOLD.  Never an entry, never NO_ACTION.
C8_OpenPositionPriority ==
    (result # <<>> /\ call.op = "generate_signal" /\ call.position.direction # "none") =>
        LET sig == result[1]
            bar == call.current_bar
            f == call.features
            pos == call.position
        IN  IF pos.direction = "long"
            THEN IF bar.low <= pos.stop_price
                 THEN sig.action = "stop_long" /\ sig.price = pos.stop_price
                 ELSE IF ~IsNa(f.ll_10) /\ bar.close < f.ll_10
                 THEN sig.action = "exit_long" /\ sig.price = bar.close
                 ELSE sig.action = "hold"
            ELSE IF bar.high >= pos.stop_price
                 THEN sig.action = "stop_short" /\ sig.price = pos.stop_price
                 ELSE IF ~IsNa(f.hh_10) /\ bar.close > f.hh_10
                 THEN sig.action = "exit_short" /\ sig.price = bar.close
                 ELSE sig.action = "hold"

\* the stop touched exactly, with the rule exit holding on the same bar
C8_Witness ==
    /\ result # <<>> /\ call.op = "generate_signal"
    /\ call.position.direction = "long"
    /\ call.current_bar.low = call.position.stop_price
    /\ ~IsNa(call.features.ll_10) /\ call.current_bar.close < call.features.ll_10
    /\ result[1].action = "stop_long"

\* C9: flat, generate_signal returns ENTRY_LONG iff there is a previous bar,
\* close > MA, slope > 0, prev_close <= reference high < close and long is not
\* in cooldown; ENTRY_SHORT symmetrically; NO_ACTION in every other case.  In
\* the event loop the reference high/low are the previous row's hh_20/ll_20.
C9_FlatEntryRule ==
    (result # <<>> /\ call.op \in {"generate_signal", "loop"}
                   /\ call.position.direction = "none") =>
        LET sig == result[1]
            loop == call.op = "loop"
            has_prev == loop \/ call.prev_bar # <<>>
            close == IF loop THEN call.current_row.close ELSE call.current_bar.close
            prev_close == IF loop THEN call.prev_row.close ELSE call.prev_bar[1].close
            ma == IF loop THEN call.current_row.ma_50 ELSE call.features.ma_50
            slope == IF loop THEN call.current_row.ma_slope_10
                     ELSE call.features.ma_slope_10
            ref_high == IF loop THEN call.prev_row.hh_20 ELSE call.features.hh_20
            ref_low == IF loop THEN call.prev_row.ll_20 ELSE call.features.ll_20
            Cooling(dir) == is_in_cooldown(call.self, call.current_date,
                                call.position.last_exit_date,
                                call.position.last_exit_direction, dir)
            long_ok == /\ has_prev
                       /\ ~IsNa(ma) /\ ~IsNa(slope) /\ close > ma /\ slope > 0
                       /\ ~IsNa(ref_high) /\ prev_close <= ref_high /\ ref_high < close
                       /\ ~Cooling("long")
            short_ok == /\ has_prev
                        /\ ~IsNa(ma) /\ ~IsNa(slope) /\ close < ma /\ slope < 0
                        /\ ~IsNa(ref_low) /\ prev_close >= ref_low /\ ref_low > close
                        /\ ~Cooling("short")
        IN  /\ sig.action = "entry_long" <=> long_ok
            /\ sig.action = "entry_short" <=> short_ok
            /\ sig.action \in {"entry_long", "entry_short", "no_action"}
            /\ sig.price = close

\* a breakout in the loop above the previous row's high, not above the
\* current row's own
C9_Witness ==
    /\ result # <<>> /\ call.op = "loop"
    /\ result[1].action = "entry_long"
    /\ call.current_row.close <= call.current_row.hh_20
    /\ call.current_row.close > call.prev_row.hh_20

\* dates with a bar after a and up to b
TradingDaysSince(a, b) == Cardinality({t \in (a + 1)..b : IsTradingDay(t)})

\* C10: is_in_cooldown blocks iff an exit is recorded, in the direction of the
\* entry, and fewer than cooldown_days trading days have passed since.
C10_CooldownCountsTradingDays ==
    (result # <<>> /\ call.op = "is_in_cooldown") =>
        (result[1] <=>
            /\ call.last_exit_date # NoDate
            /\ call.last_exit_direction # "none"
            /\ call.last_exit_direction = call.entry_direction
            /\ TradingDaysSince(call.last_exit_date, call.current_date)
                   < call.self.cooldown_days)

\* C11: an entry signal is priced at the bar's close and carries the stop
\* close - stop_atr_multiple * ATR (long) or close + stop_atr_multiple * ATR
\* (short); with ATR > 0 the stop is strictly on the losing side of the price.
C11_EntryPriceAndStop ==
    (result # <<>> /\ call.op \in {"generate_signal", "loop"}
                   /\ result[1].action \in EntryActions) =>
        LET sig == result[1]
            loop == call.op = "loop"
            close == IF loop THEN call.current_row.close ELSE call.current_bar.close
            atr == IF loop THEN call.current_row.atr_20 ELSE call.features.atr_20
            \* stop_atr_multiple * ATR, undefined (NaN) with the ATR
            distance == IF IsNa(atr) THEN NaN ELSE call.self.stop_atr_multiple * atr
        IN  /\ sig.price = close
            /\ sig.action = "entry_long" =>
                  /\ sig.stop_price = IF IsNa(distance) THEN NaN ELSE close - distance
                  /\ (~IsNa(atr) /\ atr > 0) => sig.stop_price < sig.price
            /\ sig.action = "entry_short" =>
                  /\ sig.stop_price = IF IsNa(distance) THEN NaN ELSE close + distance
                  /\ (~IsNa(atr) /\ atr > 0) => sig.stop_price > sig.price

C11_Witness ==
    /\ result # <<>> /\ call.op = "loop"
    /\ result[1].action = "entry_short"
    /\ ~IsNa(call.current_row.atr_20) /\ call.current_row.atr_20 > 0
    /\ result[1].stop_price > result[1].price

DrawdownAtLeast(eq, peak, th) ==
    IF peak > 0 THEN (peak - eq) * th.den >= th.num * peak ELSE 0 >= th.num

\* the day's P&L is a loss beyond the limit lim of the start-of-day equity
\* (the daily loss is 0 when there is no positive start-of-day equity)
DailyLossBeyond(pnl, sod, lim) ==
    IF sod > 0 THEN pnl * lim.den < (0 - lim.num) * sod ELSE 0 < 0 - lim.num

RECURSIVE ExposureOf(_, _)
ExposureOf(book, symbols) ==
    IF book = <<>> THEN 0
    ELSE (IF book[1].symbol \in symbols THEN Abs(book[1].value) ELSE 0)
           + ExposureOf(Tail(book), symbols)

\* C15: with max_gross_exposure configured, check_exposure_limits rejects a
\* trade when the sum of |value| of the current positions plus |new position
\* value| is above equity * max_gross_exposure; with no correlated limit
\* configured it allows the trade when that total is at or below the limit.
C15_GrossExposureLimit ==
    (result # <<>> /\ call.op = "check_exposure_limits"
       /\ call.self.max_gross_exposure # <<>>) =>
        LET limit == call.self.max_gross_exposure[1]
            total == ExposureOf(call.current_positions, {"ES", "NQ", "YM"})
                       + Abs(call.new_position_value)
            above == total * limit.den > call.equity * limit.num
        IN  /\ above => ~result[1].allowed
            /\ (~above /\ call.self.max_correlated_exposure = <<>>)
                   => result[1].allowed

\* a long and a short of 300 each with a new short of 200 against a limit of
\* 500: 800 in gross, rejected
C15_Witness ==
    /\ result # <<>>
    /\ call.op = "check_exposure_limits"
    /\ call.self.max_gross_exposure = <<Ratio(1, 2)>>
    /\ call.self.max_correlated_exposure = <<>>
    /\ Len(call.current_positions) = 2
    /\ call.current_positions[2].value < 0
    /\ call.new_position_value = -200
    /\ ~result[1].allowed


\* C16: with max_correlated_exposure configured, check_exposure_limits rejects
\* a new ES or NQ trade when the sum of |value| of the current ES and NQ
\* positions plus |new position value| is above
\* equity * max_correlated_exposure, and the correlated limit never rejects a
\* trade whose instrument is neither ES nor NQ.
C16_CorrelatedExposureLimit ==
    (result # <<>> /\ call.op = "check_exposure_limits"
       /\ call.self.max_correlated_exposure # <<>>) =>
        LET limit == call.self.max_correlated_exposure[1]
            gross == call.self.max_gross_exposure
            correlated == ExposureOf(call.current_positions, {"ES", "NQ"})
                            + Abs(call.new_position_value)
            total == ExposureOf(call.current_positions, {"ES", "NQ", "YM"})
                       + Abs(call.new_position_value)
            above_gross == gross # <<>>
                             /\ total * gross[1].den > call.equity * gross[1].num
        IN  IF call.instrument_symbol \in {"ES", "NQ"}
            THEN correlated * limit.den > call.equity * limit.num
                     => ~result[1].allowed
            ELSE /\ result[1].allowed <=> ~above_gross
                 /\ result[1].reason # "Would exceed max correlated exposure for ES+NQ"

\* a new NQ trade of 200 beside ES 300 and YM 300 against a correlated limit
\* of 400 and no gross limit: 500 of ES+NQ, rejected
C16_Witness ==
    /\ result # <<>>
    /\ call.op = "check_exposure_limits"
    /\ call.self.max_gross_exposure = <<>>
    /\ call.self.max_correlated_exposure = <<Ratio(2, 5)>>
    /\ call.instrument_symbol = "NQ"
    /\ Len(call.current_positions) = 2
    /\ call.current_positions[2].symbol = "YM"
    /\ call.new_position_value = 200
    /\ result[1] = [allowed |-> FALSE,
                    reason |-> "Would exceed max correlated exposure for ES+NQ"]


\* validate_trade's result read against the claim: with trading disabled it is
\* 0 contracts with the risk-state message; a result above 0 has trading
\* enabled and keeps the proposed value contracts * entry_price * multiplier,
\* added to the positions of book, within every configured limit
ValidatedWithin(book) ==
    LET size == result[1].position_size
        self == call.self
        gross == self.max_gross_exposure
        corr == self.max_correlated_exposure
        enabled == ~ \/ DailyLossBeyond(call.daily_pnl, call.start_of_day_equity,
                                        self.daily_loss_limit_pct)
                     \/ DrawdownAtLeast(call.equity, call.peak_equity,
                                        self.drawdown_halt_pct)
        value == size.contracts * call.entry_price * call.multiplier
    IN  /\ ~enabled => /\ size.contracts = 0
                       /\ size.reason = result[1].risk_state.message
                       /\ ~result[1].risk_state.can_open_new_trades
        /\ size.contracts > 0 =>
              /\ enabled
              /\ gross # <<>> =>
                    (ExposureOf(book, {"ES", "NQ", "YM"}) + value) * gross[1].den
                        <= call.equity * gross[1].num
              /\ (corr # <<>> /\ call.instrument_symbol \in {"ES", "NQ"}) =>
                    (ExposureOf(book, {"ES", "NQ"}) + value) * corr[1].den
                        <= call.equity * corr[1].num

\* C17: validate_trade computes the risk state first; with trading disabled it
\* returns 0 contracts with the risk-state message, without sizing; otherwise
\* it sizes the position and, when the size is above zero, checks the exposure
\* limits against contracts * entry_price * multiplier and returns 0 contracts
\* with the rejection reason if a limit would be breached.  Hence any result
\* with contracts > 0 has trading enabled and satisfies every configured
\* exposure limit.
C17_ValidatedTradeWithinLimits ==
    (result # <<>> /\ call.op = "validate_trade") =>
        ValidatedWithin(IF call.current_positions = <<>> THEN <<>>
                        ELSE call.current_positions[1])

\* the same for the calls that pass a list of current positions
C17_WithinLimitsGivenPositions ==
    (result # <<>> /\ call.op = "validate_trade" /\ call.current_positions # <<>>) =>
        ValidatedWithin(call.current_positions[1])

\* trading enabled, a size above zero and a book of 4800 against a gross limit
\* of 5000: the sized trade is rejected with the limit's reason
C17_Witness ==
    /\ result # <<>>
    /\ call.op = "validate_trade"
    /\ call.current_positions # <<>>
    /\ call.self.max_gross_exposure # <<>>
    /\ result[1].risk_state.can_open_new_trades
    /\ result[1].position_size.contracts = 0
    /\ result[1].position_size.reason = "Would exceed max gross exposure"


(***************************************************************************)
(* Properties of the backtest run: cash, dropped entries, failed runs       *)
(***************************************************************************)
\* the entry fill that opened the trade the exit fill db.fills[k] closes: the
\* latest earlier entry fill of the same instrument
EntryFillOf(k) ==
    LET earlier == {j \in 1..(k - 1) :
                       /\ db.fills[j].kind = "entry"
                       /\ db.fills[j].instrument_id = db.fills[k].instrument_id}
    IN  db.fills[MaxOf(earlier)]

\* the realized P&L of the trade closed by the exit fill db.fills[k]
RealizedPnlOf(k) ==
    LET entry == EntryFillOf(k)
        exit == db.fills[k]
        held == IF entry.side = "buy" THEN entry.quantity ELSE 0 - entry.quantity
    IN  held * (exit.fill_price - entry.fill_price)
             * Instrument(exit.instrument_id).multiplier

\* over the first k fills: realized P&L of the exits less the commission on
\* every contract filled
RECURSIVE CashFlow(_)
CashFlow(k) ==
    IF k = 0 THEN 0
    ELSE CashFlow(k - 1)
           + (IF db.fills[k].kind = "exit" THEN RealizedPnlOf(k) ELSE 0)
           - config.commission_per_contract * db.fills[k].quantity

\* C18: cash changes only through fills: an entry fill of n contracts takes
\* commission_per_contract * n, an exit fill adds the trade's realized P&L less
\* commission_per_contract * n.  So the cash always equals initial_capital plus
\* the realized P&L of the closed trades minus commission_per_contract times
\* the contracts of all entry and exit fills.
C18_CashIsCapitalPlusFills ==
    instrument_data # <<>> =>
        state.cash = config.initial_capital + CashFlow(Len(db.fills))

\* a closed trade with a realized P&L other than zero
C18_Witness ==
    /\ instrument_data # <<>>
    /\ \E k \in 1..Len(db.fills) :
           db.fills[k].kind = "exit" /\ RealizedPnlOf(k) # 0
    /\ state.cash # config.initial_capital


\* the fills of one instrument, in order
FillsOf(fills, id) == SelectSeq(fills, LAMBDA f : f.instrument_id = id)

\* signal s is an entry that validate_trade sized above zero, decided on the
\* last date of its instrument's frame
IsEntryOnLastDay(s) ==
    /\ s.signal_type \in EntryActions
    /\ s.target_contracts > 0
    /\ s.date = MaxOf(dates[s.instrument_id])

\* C19: an entry signal sized above zero on the instrument's last available
\* trading day is dropped: the step that stores it makes no fill for the
\* instrument, opens no position, leaves the instrument's strategy state flat
\* as it was, and leaves the cash alone (the cash moves only if the step fills
\* an order of another instrument).
C19_EntryOnLastDayIsDropped ==
    [][\A k \in (Len(db.signals) + 1)..Len(db'.signals) :
          IsEntryOnLastDay(db'.signals[k]) =>
              LET id == db'.signals[k].instrument_id
              IN  /\ FillsOf(db'.fills, id) = FillsOf(db.fills, id)
                  /\ ~HasPosition(state'.positions, id)
                  /\ state'.strategy_states[id] = state.strategy_states[id]
                  /\ state'.strategy_states[id].direction = "none"
                  /\ db'.fills = db.fills => state'.cash = state.cash]_vars

\* a sized entry decided on the last day, stored, with the run completed
C19_Witness ==
    /\ status = "completed"
    /\ \E s \in Signals :
           /\ IsEntryOnLastDay(s)
           /\ FillsOf(db.fills, s.instrument_id) = <<>>
           /\ state.strategy_states[s.instrument_id].direction = "none"
           /\ state.cash = config.initial_capital


\* sequence a is the beginning of sequence b
IsPrefix(a, b) == Len(a) <= Len(b) /\ \A k \in 1..Len(a) : a[k] = b[k]

\* C20: when a step of run_backtest raises, the run ends with status failed and
\* error_message the text of the exception, the exception leaves run_backtest
\* (the run is done, no step of it follows), and the snapshots, signals and fills made
\* before the failure, those of the failing day included, are kept.
C20_FailedRunKeepsRows ==
    [][(status' = "failed" /\ status # "failed") =>
          /\ pc' = "done"
          /\ IsPrefix(db.signals, db'.signals)
          /\ IsPrefix(db.fills, db'.fills)
          /\ db'.snapshots = db.snapshots
          /\ Len(db'.snapshots) = day
          /\ \/ /\ error_message' = "No active instruments found for symbols"
                /\ found = {}
             \/ /\ error_message' = "No data available for selected instruments and date range"
                /\ found # {}
                /\ \A id \in found : Cardinality(dates[id]) < 2
             \* RuntimeError of the start-of-day stop check: its exit fill is kept
             \/ /\ error_message' = "dictionary changed size during iteration"
                /\ Len(db'.fills) = Len(db.fills) + 1
                /\ db'.fills[Len(db'.fills)].kind = "exit"
             \* KeyError of the exit signal: its signal and its exit fill are kept
             \/ \E id \in InstrumentIds :
                   /\ error_message' = ToString(id)
                   /\ Len(db'.fills) > Len(db.fills)
                   /\ db'.fills[Len(db'.fills)].kind = "exit"
                   /\ db'.fills[Len(db'.fills)].instrument_id = id
                   /\ Len(db'.signals) > Len(db.signals)
                   /\ db'.signals[Len(db'.signals)].signal_type \in ExitActions
                   /\ db'.signals[Len(db'.signals)].instrument_id = id]_vars

\* a run failed on its third day: two snapshots, an entry fill and the exit
\* fill of the failing day stored
C20_Witness ==
    /\ status = "failed"
    /\ pc = "done"
    /\ error_message = "dictionary changed size during iteration"
    /\ Len(db.snapshots) = 2
    /\ Len(db.fills) = 2
    /\ db.signals # <<>>


\* the run has nothing to trade: no active instrument was found, or none of
\* those found has two rows in the date range
NothingToTrade == found = {} \/ \A id \in found : Cardinality(dates[id]) < 2

\* C21: when no active instrument matches the configured symbols, or no
\* instrument has at least two rows of data in the date range, run_backtest
\* aborts before the event loop: once past its preparation the run is failed
\* with a descriptive message, no day was processed and no snapshot, signal or
\* fill exists.
C21_AbortBeforeLoop ==
    (NothingToTrade /\ pc \notin {"created", "prepare"}) =>
        /\ status = "failed"
        /\ pc = "done"
        /\ error_message =
              IF found = {} THEN "No active instruments found for symbols"
              ELSE "No data available for selected instruments and date range"
        /\ day = 0
        /\ all_dates = <<>>
        /\ db = [signals |-> <<>>, fills |-> <<>>, snapshots |-> <<>>]

\* an instrument was found but its frame holds a single row
C21_Witness ==
    /\ found # {}
    /\ NothingToTrade
    /\ status = "failed"
    /\ error_message = "No data available for selected instruments and date range"


\* the moves of the status the claim allows
StatusMoves ==
    {<<"pending", "running">>, <<"running", "completed">>, <<"running", "failed">>}

\* C22: a run's status is always one of pending, running, completed, failed and
\* only moves pending -> running -> completed or pending -> running -> failed;
\* completed is set only after every date of the run was processed (one
\* snapshot per date) and the final metrics computed; and every started run
\* eventually reaches completed or failed.
C22_StatusLifecycle ==
    /\ [](status \in {"pending", "running", "completed", "failed"})
    /\ [][status' # status => <<status, status'>> \in StatusMoves]_vars
    /\ [](status = "completed" =>
             /\ all_dates # <<>>
             /\ day = Len(all_dates)
             /\ Len(db.snapshots) = Len(all_dates)
             /\ metrics # <<>>)
    /\ (status = "running" ~> status \in {"completed", "failed"})

\* a run completed over several dates
C22_Witness ==
    /\ status = "completed"
    /\ Len(all_dates) >= 2
    /\ day = Len(all_dates)
    /\ metrics # <<>>


\* C23: for a flat position, whenever a feature the entry decision depends on
\* (ATR, MA, MA slope, the long window's high and low) is undefined,
\* generate_signal returns NO_ACTION; in particular no entry signal carries an
\* undefined stop price.
C23_UndefinedFeatureIsNoAction ==
    (result # <<>> /\ call.op = "generate_signal"
       /\ call.position.direction = "none") =>
        LET f == call.features
            undefined == \/ IsNa(f.atr_20) \/ IsNa(f.ma_50) \/ IsNa(f.ma_slope_10)
                         \/ IsNa(f.hh_20) \/ IsNa(f.ll_20)
        IN  /\ undefined => result[1].action = "no_action"
            /\ result[1].action \in EntryActions => ~IsNa(result[1].stop_price)


\* the instruments of the run (the keys of instrument_data)
Loaded == {instrument_data[k] : k \in 1..Len(instrument_data)}

\* C24: when an instrument has no bar on a processed date it is skipped for
\* that date: the day's step stores no signal and no fill for it, leaves its
\* position and its strategy state as they were and raises nothing on its
\* account; the other instruments are processed and, unless one of them fails
\* the run, the day's snapshot is appended.
C24_NoBarInstrumentSkipped ==
    [][LoopPending =>
          LET current_date == all_dates[day + 1]
          IN  \A id \in Loaded :
                 current_date \notin dates[id] =>
                     /\ \A k \in (Len(db.signals) + 1)..Len(db'.signals) :
                            db'.signals[k].instrument_id # id
                     /\ FillsOf(db'.fills, id) = FillsOf(db.fills, id)
                     /\ state'.strategy_states[id] = state.strategy_states[id]
                     /\ SelectSeq(state'.positions, LAMBDA p : p.instrument_id = id)
                            = SelectSeq(state.positions, LAMBDA p : p.instrument_id = id)
                     /\ error_message' # ToString(id)
                     /\ status' # "failed" =>
                            /\ Len(db'.snapshots) = Len(db.snapshots) + 1
                            /\ db'.snapshots[Len(db'.snapshots)].date = current_date
                            /\ day' = day + 1]_vars

\* a date on which one instrument, holding a position, has no bar while the
\* other stores a signal; the day's snapshot is appended with the position
\* still open
C24_Witness ==
    \E id \in Loaded : \E s \in Signals : \E sn \in Snapshots :
        /\ s.date \notin dates[id]
        /\ s.instrument_id # id
        /\ s.date \in dates[s.instrument_id]
        /\ sn.date = s.date
        /\ sn.num_positions > 0
        /\ \E f \in EntryFills : f.instrument_id = id /\ f.fill_date > s.date


(***************************************************************************)
(* Properties of the final metrics and of the closed trades                 *)
(***************************************************************************)
\* the length of the longest contiguous run of snapshots with drawdown > 0
LongestDrawdownRun ==
    LET n == Len(db.snapshots)
        InDrawdown(i, j) == \A k \in i..j : db.snapshots[k].drawdown.num > 0
        lengths == {0} \cup {j - i + 1 : i, j \in 1..n}
    IN  MaxOf({len \in lengths :
                  len = 0 \/ \E i \in 1..n : i + len - 1 <= n
                                              /\ InDrawdown(i, i + len - 1)})

\* C25: the reported maximum drawdown duration is the length, counted in
\* snapshots, of the longest contiguous run of snapshots with drawdown > 0.
C25_DrawdownDurationIsLongestRun ==
    metrics # <<>> => metrics[1].max_drawdown_duration = LongestDrawdownRun


\* the exit fills, by their place in db.fills
ExitIndices == {k \in 1..Len(db.fills) : db.fills[k].kind = "exit"}

\* every exit was counted once, as a winner or as a loser
TradesCounted ==
    /\ state.total_trades = Cardinality(ExitIndices)
    /\ state.total_trades = state.winning_trades + state.losing_trades

\* the statement of C26 as the specification words it: the winners are the
\* trades whose realized P&L is positive
C26_WinnerIffRealizedPnlPositive ==
    instrument_data # <<>> =>
        /\ TradesCounted
        /\ state.winning_trades = Cardinality({k \in ExitIndices : RealizedPnlOf(k) > 0})

\* C26: every executed exit increments total_trades by one and exactly one of
\* winning_trades and losing_trades (total_trades = winning_trades +
\* losing_trades always), and the trade is a winner exactly when its realized
\* P&L less the commission of its exit fill is positive.
C26_WinnerIffNetPnlPositive ==
    instrument_data # <<>> =>
        /\ TradesCounted
        /\ state.winning_trades =
              Cardinality({k \in ExitIndices :
                              RealizedPnlOf(k) - db.fills[k].commission > 0})

\* a trade closed with a realized P&L above zero that its exit commission
\* takes whole: counted as a loser
C26_Witness ==
    /\ state.total_trades = 1
    /\ state.losing_trades = 1
    /\ \E k \in ExitIndices :
           RealizedPnlOf(k) > 0 /\ RealizedPnlOf(k) = db.fills[k].commission


(***************************************************************************)
(* Round trips: one entry and one rule-based exit per instrument            *)
(***************************************************************************)
\* the places in db.signals of the instrument's signals of the given types
SignalsOf(id, types) ==
    {k \in 1..Len(db.signals) : /\ db.signals[k].instrument_id = id
                                /\ db.signals[k].signal_type \in types}

\* the run has two instruments, each entered once on a breakout with the
\* entry filled, and left at most once, by the exit rule and after the entry
OneRoundTripEach ==
    /\ Cardinality(Loaded) = 2
    /\ \A id \in Loaded :
          /\ Cardinality(SignalsOf(id, EntryActions)) = 1
          /\ \E f \in EntryFills : f.instrument_id = id
          /\ SignalsOf(id, {"stop_long", "stop_short"}) = {}
          /\ Cardinality(SignalsOf(id, {"exit_long", "exit_short"})) <= 1
          /\ \A k \in SignalsOf(id, {"exit_long", "exit_short"}) :
                 \A j \in SignalsOf(id, EntryActions) : j < k
          /\ \A f \in ExitFills :
                 f.instrument_id = id =>
                     \E k \in SignalsOf(id, {"exit_long", "exit_short"}) :
                         db.signals[k].date = f.fill_date

\* C27: a two-instrument backtest whose price series produces one breakout
\* entry followed by one rule-based exit per instrument is not failed by its
\* exits: it runs to status completed and reports total_trades = 2.
C27_TwoRoundTripsComplete ==
    OneRoundTripEach =>
        /\ status # "failed"
        /\ (status = "completed"
              /\ \A id \in Loaded :
                     SignalsOf(id, {"exit_long", "exit_short"}) # {}) =>
               /\ metrics # <<>>
               /\ metrics[1].total_trades = 2


(***************************************************************************)
(* Feature engine (feature_engine.py)                                       *)
(* A pandas Series is a sequence of optional numbers, <<>> standing for NaN *)
(* and <<v>> for the number v; a rolling mean is kept exact, as the ratio   *)
(* of the window's sum to its count.  A DataFrame of bars is the sequence   *)
(* of its rows in date order.                                               *)
(***************************************************************************)
MaxBars == 4
MaxPeriod == 3
MaxBarDates == 3

\* the smallest of a non-empty set of numbers
MinOf(S) == CHOOSE x \in S : \A y \in S : x <= y

\* df[name]
Column(df, name) == [i \in 1..Len(df) |-> df[i][name]]

\* Series.shift(1)
shift(s) == [i \in 1..Len(s) |-> IF i = 1 THEN <<>> ELSE s[i - 1]]

\* a - b, entry by entry; NaN where either entry is NaN
Minus(a, b) ==
    [i \in 1..Len(a) |-> IF a[i] = <<>> \/ b[i] = <<>> THEN <<>>
                         ELSE <<a[i][1] - b[i][1]>>]

\* abs(a), entry by entry
AbsSeries(a) == [i \in 1..Len(a) |-> IF a[i] = <<>> THEN <<>> ELSE <<Abs(a[i][1])>>]

\* variant: the row-wise maximum with skipna=False, NaN where any column is
max_axis1_strict(cols) ==
    [i \in 1..Len(cols[1]) |->
        IF \E c \in 1..Len(cols) : cols[c][i] = <<>> THEN <<>>
        ELSE <<MaxOf({cols[c][i][1] : c \in 1..Len(cols)})>>]

\* pd.concat(cols, axis=1).max(axis=1): the row-wise maximum of the columns,
\* NaN entries skipped (skipna defaults to True), NaN where every column is
max_axis1(cols) ==
    [i \in 1..Len(cols[1]) |->
        LET defined == {c \in 1..Len(cols) : cols[c][i] # <<>>}
        IN  IF defined = {} THEN <<>>
            ELSE <<MaxOf({cols[c][i][1] : c \in defined})>>]

\* variant: rolling(window, min_periods=1)
min_periods_one(window) == 1

\* Series.rolling(window=period): min_periods defaults to the window size
min_periods(window) == window

\* the defined entries among the last `window` entries up to entry i
Observations(s, i, window) == {k \in 1..i : k > i - window /\ s[k] # <<>>}

RECURSIVE SumOver(_, _)
SumOver(s, K) ==
    IF K = {} THEN 0
    ELSE LET k == CHOOSE j \in K : TRUE
         IN  s[k][1] + SumOver(s, K \ {k})

\* s.rolling(window).mean()
rolling_mean(s, window) ==
    [i \in 1..Len(s) |->
        LET obs == Observations(s, i, window)
        IN  IF Cardinality(obs) < min_periods(window) THEN <<>>
            ELSE <<Ratio(SumOver(s, obs), Cardinality(obs))>>]

\* s.rolling(window).max()
rolling_max(s, window) ==
    [i \in 1..Len(s) |->
        LET obs == Observations(s, i, window)
        IN  IF Cardinality(obs) < min_periods(window) THEN <<>>
            ELSE <<MaxOf({s[k][1] : k \in obs})>>]

\* s.rolling(window).min()
rolling_min(s, window) ==
    [i \in 1..Len(s) |->
        LET obs == Observations(s, i, window)
        IN  IF Cardinality(obs) < min_periods(window) THEN <<>>
            ELSE <<MinOf({s[k][1] : k \in obs})>>]

\* the true range of each bar
true_range(df) ==
    LET high == Column(df, "high")
        low == Column(df, "low")
        close == shift(Column(df, "close"))
        tr1 == Minus(high, low)
        tr2 == AbsSeries(Minus(high, close))
        tr3 == AbsSeries(Minus(low, close))
    IN  max_axis1(<<tr1, tr2, tr3>>)

compute_atr(df, period) == rolling_mean(true_range(df), period)

compute_ma(df, period) == rolling_mean(Column(df, "close"), period)

\* np.polyfit(arange(period), y, 1)[0]: the least-squares slope of the window,
\* sum((x - mean(x)) * y) / sum((x - mean(x))^2), numerator and denominator
\* both doubled; the entries of ma share the denominator of their mean
compute_ma_slope(ma, period) ==
    [i \in 1..Len(ma) |->
        IF i < period THEN <<>>
        ELSE IF \E k \in (i - period + 1)..i : ma[k] = <<>> THEN <<>>
        ELSE LET x == [k \in (i - period + 1)..i |-> 2 * (k - (i - period + 1)) - (period - 1)]
                 num == [k \in (i - period + 1)..i |-> <<x[k] * ma[k][1].num>>]
                 sq == [k \in (i - period + 1)..i |-> <<x[k] * x[k]>>]
             IN  <<Ratio(2 * SumOver(num, (i - period + 1)..i),
                         ma[i][1].den * SumOver(sq, (i - period + 1)..i))>>]

compute_highest_high(df, period) == rolling_max(Column(df, "high"), period)

compute_lowest_low(df, period) == rolling_min(Column(df, "low"), period)

\* the feature columns compute_all_features adds to the bars, row by row
compute_all_features(df, atr_period, ma_period, ma_slope_period, breakout_period, exit_period) ==
    LET atr_20 == compute_atr(df, atr_period)
        ma_50 == compute_ma(df, ma_period)
        ma_slope_10 == compute_ma_slope(ma_50, ma_slope_period)
        hh_20 == compute_highest_high(df, breakout_period)
        ll_20 == compute_lowest_low(df, breakout_period)
        hh_10 == compute_highest_high(df, exit_period)
        ll_10 == compute_lowest_low(df, exit_period)
    IN  [i \in 1..Len(df) |->
            [date |-> df[i].date, atr_20 |-> atr_20[i], ma_50 |-> ma_50[i],
             ma_slope_10 |-> ma_slope_10[i], hh_20 |-> hh_20[i], ll_20 |-> ll_20[i],
             hh_10 |-> hh_10[i], ll_10 |-> ll_10[i]]]

\* a row of the bars table and of a DataFrame of bars
BarRow(instrument_id, date, high, low, close) ==
    [instrument_id |-> instrument_id, date |-> date,
     high |-> high, low |-> low, close |-> close]

\* db.query(Bar).filter(Bar.instrument_id == instrument.id).order_by(Bar.date).all()
query_bars(bars, instrument_id) ==
    LET rows == {b \in bars : b.instrument_id = instrument_id}
        ds == SortedSeq({b.date : b \in rows})
    IN  [i \in 1..Len(ds) |-> CHOOSE b \in rows : b.date = ds[i]]

\* ingest_bars for a request of one bar: the bar of that instrument and date
\* is updated if there is one, created otherwise, and the session committed
ingest_bars(session, bar_data) ==
    LET existing == {b \in session.bars : /\ b.instrument_id = bar_data.instrument_id
                                          /\ b.date = bar_data.date}
    IN  session_commit([session EXCEPT !.bars = (@ \ existing) \cup {bar_data}])

\* variant: the rows of the instrument are left in place
keep_features(features, instrument_id) == features

\* db.query(Feature).filter(Feature.instrument_id == instrument.id).delete()
delete_features(features, instrument_id) ==
    {f \in features : f.instrument_id # instrument_id}

\* Feature(instrument_id=..., date=date_val, atr_20=float(row['atr_20']), ...):
\* a NaN is stored as None, written <<>> as well
FeatureRow(instrument_id, row) ==
    [instrument_id |-> instrument_id, date |-> row.date,
     atr_20 |-> row.atr_20, ma_50 |-> row.ma_50, ma_slope_10 |-> row.ma_slope_10,
     hh_20 |-> row.hh_20, ll_20 |-> row.ll_20, hh_10 |-> row.hh_10, ll_10 |-> row.ll_10]

\* recompute_features_for_instrument: the database after the call and the
\* number of features it returns
recompute_features_for_instrument(session, instrument_id, atr_period, ma_period, ma_slope_period, breakout_period, exit_period) ==
    LET bars == query_bars(session.bars, instrument_id)
    IN  IF bars = <<>> THEN [db |-> session, feature_count |-> 0]
        ELSE LET features_df == compute_all_features(bars, atr_period, ma_period,
                                    ma_slope_period, breakout_period, exit_period)
                 deleted == delete_features(session.features, instrument_id)
                 kept == {i \in 1..Len(features_df) :
                             ~(features_df[i].atr_20 = <<>> \/ features_df[i].ma_50 = <<>>)}
                 added == {FeatureRow(instrument_id, features_df[i]) : i \in kept}
             IN  [db |-> session_commit([session EXCEPT !.features = deleted \cup added]),
                  feature_count |-> Cardinality(kept)]

(***************************************************************************)
(* StrategyEngine.backtest_single_instrument (strategy_engine.py)          *)
(***************************************************************************)
\* df.sort_index(): the rows in the order of their dates
sort_index(df) ==
    LET ds == SortedSeq({df[i].date : i \in 1..Len(df)})
    IN  [i \in 1..Len(ds) |-> df[CHOOSE k \in 1..Len(df) : df[k].date = ds[i]]]

\* variant: the breakout channel is read from the previous row, as the
\* backtest loop reads it (NaN on the first row)
SingleFeaturesLagged(row, prev_row) ==
    [atr_20 |-> row.atr_20, ma_50 |-> row.ma_50, ma_slope_10 |-> row.ma_slope_10,
     hh_20 |-> IF prev_row = <<>> THEN NaN ELSE prev_row[1].hh_20,
     ll_20 |-> IF prev_row = <<>> THEN NaN ELSE prev_row[1].ll_20,
     hh_10 |-> row.hh_10, ll_10 |-> row.ll_10]

\* the features dict of a row: every feature is the current row's own
SingleFeatures(row, prev_row) ==
    [atr_20 |-> row.atr_20, ma_50 |-> row.ma_50, ma_slope_10 |-> row.ma_slope_10,
     hh_20 |-> row.hh_20, ll_20 |-> row.ll_20,
     hh_10 |-> row.hh_10, ll_10 |-> row.ll_10]

\* "Update position state based on signal"
SinglePositionAfter(position, signal) ==
    IF signal.action \in EntryActions
    THEN [position EXCEPT
             !.direction = IF signal.action = "entry_long" THEN "long" ELSE "short",
             !.entry_price = signal.price,
             !.entry_date = signal.date,
             !.stop_price = signal.stop_price]
    ELSE IF signal.action \in ExitActions
    THEN [position EXCEPT
             !.last_exit_date = signal.date,
             !.last_exit_direction = position.direction,
             !.direction = "none",
             !.entry_price = 0,
             !.entry_date = NoDate,
             !.stop_price = 0]
    ELSE position

RECURSIVE SingleLoop(_, _, _, _, _)
\* for i, (date_val, row) in enumerate(df_sorted.iterrows()), from row i on
SingleLoop(self, df_sorted, i, position, signals) ==
    IF i > Len(df_sorted) THEN [signals |-> signals, position |-> position]
    ELSE
    LET row == df_sorted[i]
        current_bar == [high |-> row.high, low |-> row.low, close |-> row.close]
        prev_row == IF i > 1 THEN <<df_sorted[i - 1]>> ELSE <<>>
        prev_bar == IF i > 1
                    THEN <<[high |-> prev_row[1].high, low |-> prev_row[1].low,
                            close |-> prev_row[1].close]>>
                    ELSE <<>>
        signal == generate_signal(self, row.date, current_bar, prev_bar,
                                  SingleFeatures(row, prev_row), position)
    IN  SingleLoop(self, df_sorted, i + 1, SinglePositionAfter(position, signal),
                   Append(signals, signal))

\* initial_position is <<>> for None; the result keeps the signal columns of
\* results_df and the position state the loop ends with
backtest_single_instrument(self, df, initial_position) ==
    LET position == IF initial_position = <<>> THEN PositionState
                    ELSE initial_position[1]
    IN  SingleLoop(self, sort_index(df), 1, position, <<>>)

\* The DataFrame backtest_single_instrument is handed: the bars with the
\* columns compute_all_features adds to them.  generate_signal works on whole
\* numbers, so every price is multiplied by atr_period * ma_period, which
\* makes the rolling means whole; the slope, of which only the sign is read,
\* is multiplied by its positive denominator.
FrameWithFeatures(df, periods) ==
    LET f == compute_all_features(df, periods.atr_period, periods.ma_period,
                 periods.ma_slope_period, periods.breakout_period, periods.exit_period)
        scale == periods.atr_period * periods.ma_period
        Level(x) == IF x = <<>> THEN NaN ELSE x[1] * scale
        Mean(x) == IF x = <<>> THEN NaN ELSE (x[1].num * scale) \div x[1].den
        Slope(x) == IF x = <<>> THEN NaN ELSE x[1].num
    IN  [i \in 1..Len(df) |->
            [date |-> df[i].date, high |-> Level(df[i].high), low |-> Level(df[i].low),
             close |-> Level(df[i].close), atr_20 |-> Mean(f[i].atr_20),
             ma_50 |-> Mean(f[i].ma_50), ma_slope_10 |-> Slope(f[i].ma_slope_10),
             hh_20 |-> Level(f[i].hh_20), ll_20 |-> Level(f[i].ll_20),
             hh_10 |-> Level(f[i].hh_10), ll_10 |-> Level(f[i].ll_10)]]

\* the position states a caller passes: None, and a long position entered at
\* 2 before the first bar with its stop at 0 or at 1
InitialPositions ==
    {<<>>}
    \cup {<<[PositionState EXCEPT !.direction = "long", !.entry_price = 2,
                                  !.stop_price = stop]>> : stop \in {0, 1}}

\* the position at the scale of the frame's prices
AtScale(initial_position, periods) ==
    IF initial_position = <<>> THEN <<>>
    ELSE <<[initial_position[1] EXCEPT
               !.entry_price = @ * periods.atr_period * periods.ma_period,
               !.stop_price = @ * periods.atr_period * periods.ma_period]>>

\* the lookback periods of a call, scaled down from 20 / 50 / 10 / 20 / 10
DefaultPeriods ==
    [atr_period |-> 2, ma_period |-> 2, ma_slope_period |-> 2,
     breakout_period |-> 2, exit_period |-> 1]

PeriodChoices ==
    {DefaultPeriods,
     [atr_period |-> 1, ma_period |-> 3, ma_slope_period |-> 2,
      breakout_period |-> 2, exit_period |-> 2]}

Recomputed(database, instrument_id, periods) ==
    recompute_features_for_instrument(database, instrument_id, periods.atr_period,
        periods.ma_period, periods.ma_slope_period, periods.breakout_period,
        periods.exit_period)

\* the prices a bar can hold: a quiet bar, a bar gapping up from it, a bar
\* falling back under the previous close, and a bar ingested without prices
BarPrices ==
    {[high |-> <<3>>, low |-> <<1>>, close |-> <<2>>],
     [high |-> <<6>>, low |-> <<4>>, close |-> <<5>>],
     [high |-> <<2>>, low |-> <<0>>, close |-> <<1>>],
     [high |-> <<>>, low |-> <<>>, close |-> <<>>]}

StoredPrices ==
    {[high |-> <<3>>, low |-> <<1>>, close |-> <<2>>],
     [high |-> <<6>>, low |-> <<4>>, close |-> <<5>>],
     [high |-> <<>>, low |-> <<>>, close |-> <<>>]}

\* the DataFrames of up to MaxBars bars, dated 1, 2, ...
DataFrames ==
    UNION {{[i \in 1..n |-> BarRow(1, i, f[i].high, f[i].low, f[i].close)] :
               f \in [1..n -> BarPrices]} : n \in 0..MaxBars}

FeatureCalls ==
    {[op |-> op, df |-> df, period |-> period] :
        op \in {"compute_atr", "compute_ma", "compute_highest_high", "compute_lowest_low"},
        df \in DataFrames, period \in 1..MaxPeriod}

\* the calls of backtest_single_instrument: the frames whose bars all carry
\* prices, with the features of either choice of periods
SingleCalls ==
    {[op |-> "backtest_single_instrument", df |-> df, periods |-> periods,
      initial_position |-> initial_position] :
        df \in {d \in DataFrames : \A i \in 1..Len(d) : d[i].close # <<>>},
        periods \in PeriodChoices, initial_position \in InitialPositions}

\* the database as the feature engine finds it: the bars of a second
\* instrument ingested and its features computed, none yet for the first
SeededDb ==
    Recomputed([bars |-> {BarRow(2, 1, <<3>>, <<1>>, <<2>>), BarRow(2, 2, <<6>>, <<4>>, <<5>>)},
                features |-> {}], 2, DefaultPeriods).db

InitFeature ==
    /\ status = "pending"
    /\ error_message = ""
    /\ pc = "created"
    /\ config = DefaultConfig
    /\ found = {}
    /\ dates = [id \in InstrumentIds |-> {}]
    /\ instrument_data = <<>>
    /\ all_dates = <<>>
    /\ day = 0
    /\ state = BacktestState(0, {})
    /\ db = SeededDb
    /\ last_row = [id \in InstrumentIds |-> <<>>]
    /\ metrics = <<>>
    /\ call \in FeatureCalls \cup SingleCalls \cup {[op |-> "none"]}
    /\ result = <<>>

feature_run_vars == <<status, error_message, pc, config, found, dates, instrument_data,
                      all_dates, day, state, last_row, metrics>>

CallComputeAtr ==
    /\ result = <<>>
    /\ call.op = "compute_atr"
    /\ result' = <<compute_atr(call.df, call.period)>>
    /\ UNCHANGED <<run_vars, call>>

CallComputeMa ==
    /\ result = <<>>
    /\ call.op = "compute_ma"
    /\ result' = <<compute_ma(call.df, call.period)>>
    /\ UNCHANGED <<run_vars, call>>

CallComputeHighestHigh ==
    /\ result = <<>>
    /\ call.op = "compute_highest_high"
    /\ result' = <<compute_highest_high(call.df, call.period)>>
    /\ UNCHANGED <<run_vars, call>>

CallComputeLowestLow ==
    /\ result = <<>>
    /\ call.op = "compute_lowest_low"
    /\ result' = <<compute_lowest_low(call.df, call.period)>>
    /\ UNCHANGED <<run_vars, call>>

CallBacktestSingle ==
    /\ result = <<>>
    /\ call.op = "backtest_single_instrument"
    /\ result' = <<backtest_single_instrument(DefaultConfig,
                       FrameWithFeatures(call.df, call.periods),
                       AtScale(call.initial_position, call.periods))>>
    /\ UNCHANGED <<run_vars, call>>

\* POST /bars/ingest with one bar of the first instrument
IngestBars ==
    /\ call.op \in {"none", "ingest_bars", "recompute_features_for_instrument"}
    /\ \E date \in 1..MaxBarDates : \E prices \in StoredPrices :
          db' = ingest_bars(db, BarRow(1, date, prices.high, prices.low, prices.close))
    /\ call' = [op |-> "ingest_bars"]
    /\ result' = <<>>
    /\ UNCHANGED feature_run_vars

\* POST /features/recompute/1, or the same call with other periods; the call
\* keeps the database it was given
CallRecompute ==
    /\ call.op \in {"none", "ingest_bars", "recompute_features_for_instrument"}
    /\ \E periods \in PeriodChoices :
          LET out == Recomputed(db, 1, periods)
          IN  /\ db' = out.db
              /\ call' = [op |-> "recompute_features_for_instrument", db |-> db,
                          instrument_id |-> 1, periods |-> periods]
              /\ result' = <<out.feature_count>>
    /\ UNCHANGED feature_run_vars

NextFeature ==
    \/ CallComputeAtr
    \/ CallComputeMa
    \/ CallComputeHighestHigh
    \/ CallComputeLowestLow
    \/ CallBacktestSingle
    \/ IngestBars
    \/ CallRecompute

SpecFeature == InitFeature /\ [][NextFeature]_vars


(***************************************************************************)
(* Properties of the feature engine                                         *)
(***************************************************************************)
\* the column a rolling feature is computed from
InputColumn(op) ==
    IF op = "compute_ma" THEN "close"
    ELSE IF op = "compute_highest_high" THEN "high"
    ELSE "low"

\* every price of every bar of the DataFrame is defined
AllDefined(df) ==
    \A i \in 1..Len(df) : df[i].high # <<>> /\ df[i].low # <<>> /\ df[i].close # <<>>

\* C28: for every rolling feature (MA, rolling high, rolling low, ATR) with
\* window period, the first period-1 entries are undefined, and MA, rolling
\* high and rolling low are defined from entry period-1 (counted from 0)
\* onward when the inputs of the window are defined.
C28_RollingWarmup ==
    (call.op \in {"compute_atr", "compute_ma", "compute_highest_high",
                  "compute_lowest_low"} /\ result # <<>>) =>
        LET s == result[1]
        IN  /\ Len(s) = Len(call.df)
            /\ \A i \in 1..Len(s) : i < call.period => s[i] = <<>>
            /\ call.op # "compute_atr" =>
                  \A i \in call.period..Len(s) :
                      (\A k \in (i - call.period + 1)..i :
                           call.df[k][InputColumn(call.op)] # <<>>)
                          => s[i] # <<>>

\* a moving average over three bars of a DataFrame of four, undefined on the
\* second bar and defined on the third
C28_Witness ==
    /\ call.op = "compute_ma"
    /\ result # <<>>
    /\ call.period = 3
    /\ Len(call.df) = 4
    /\ AllDefined(call.df)
    /\ result[1][2] = <<>>
    /\ result[1][3] # <<>>

\* the true range of bar k of a DataFrame whose prices are all defined: the
\* first bar has no previous close and its range is high - low
TrueRangeOf(df, k) ==
    LET h == df[k].high[1]
        l == df[k].low[1]
    IN  IF k = 1 THEN h - l
        ELSE MaxOf({h - l, Abs(h - df[k - 1].close[1]), Abs(l - df[k - 1].close[1])})

RECURSIVE SumTrueRange(_, _, _)
SumTrueRange(df, from, to) ==
    IF from > to THEN 0 ELSE TrueRangeOf(df, from) + SumTrueRange(df, from + 1, to)

\* the statement of C29 as the specification words it: ATR(period) is
\* undefined on the first period bars and first defined on bar period+1
C29_AtrNeedsPeriodPlusOneBars ==
    (call.op = "compute_atr" /\ result # <<>> /\ AllDefined(call.df)) =>
        LET atr == result[1]
        IN  /\ \A i \in 1..Len(atr) : i <= call.period => atr[i] = <<>>
            /\ Len(atr) > call.period => atr[call.period + 1] # <<>>

\* C29: ATR(period) needs period bars before its first defined value: the
\* true range of the first bar, which has no previous close, is its high - low,
\* so the ATR of the first period-1 bars is undefined and, the prices being
\* defined, the ATR is defined from the period-th bar on, where it is the mean
\* of the first period true ranges.
C29_AtrNeedsPeriodBars ==
    (call.op = "compute_atr" /\ result # <<>>) =>
        LET atr == result[1]
        IN  /\ \A i \in 1..Len(atr) : i < call.period => atr[i] = <<>>
            /\ AllDefined(call.df) =>
                  \A i \in call.period..Len(atr) :
                      /\ atr[i] # <<>>
                      /\ atr[i][1] = Ratio(SumTrueRange(call.df, i - call.period + 1, i),
                                           call.period)

\* an ATR over two bars of three: undefined on the first bar, defined on the
\* second, the second bar's range reaching back to the first bar's close
C29_Witness ==
    /\ call.op = "compute_atr"
    /\ result # <<>>
    /\ call.period = 2
    /\ Len(call.df) = 3
    /\ AllDefined(call.df)
    /\ result[1][1] = <<>>
    /\ result[1][2] # <<>>
    /\ TrueRangeOf(call.df, 2) > call.df[2].high[1] - call.df[2].low[1]

\* the stored feature rows of an instrument
FeaturesOf(features, instrument_id) == {f \in features : f.instrument_id = instrument_id}

\* the rows computed from the instrument's stored bars that have a defined
\* ATR and a defined MA
ExpectedFeatures(bars, instrument_id, periods) ==
    LET df == query_bars(bars, instrument_id)
        features_df == compute_all_features(df, periods.atr_period, periods.ma_period,
                           periods.ma_slope_period, periods.breakout_period,
                           periods.exit_period)
    IN  {FeatureRow(instrument_id, features_df[i]) :
            i \in {j \in 1..Len(df) : features_df[j].atr_20 # <<>>
                                       /\ features_df[j].ma_50 # <<>>}}

\* C30: recompute_features_for_instrument replaces the instrument's stored
\* feature set: after it commits, the stored rows are exactly the rows
\* computed from the instrument's current bars that have a defined ATR and MA,
\* one for a date at most and none left from the prior set; every step leaves
\* the stored set as it was or installs the new set whole, so that no reader
\* sees a mix; and the same call on unchanged bars leaves the same set.
C30_RecomputeReplacesFeatureSet ==
    [][/\ call'.op = "recompute_features_for_instrument" =>
             LET bars == query_bars(db.bars, 1)
                 expected == ExpectedFeatures(db.bars, 1, call'.periods)
                 stored == FeaturesOf(db'.features, 1)
             IN  /\ db'.bars = db.bars
                 /\ bars # <<>> => stored = expected
                 /\ bars = <<>> => db' = db
                 /\ \A f \in stored :
                        /\ f.atr_20 # <<>> /\ f.ma_50 # <<>>
                        /\ \E i \in 1..Len(bars) : bars[i].date = f.date
                        /\ \A g \in stored : g.date = f.date => g = f
                 /\ FeaturesOf(db'.features, 2) = FeaturesOf(db.features, 2)
                 /\ Recomputed(db', 1, call'.periods).db = db'
       /\ call'.op # "recompute_features_for_instrument" => db'.features = db.features
      ]_vars

\* a recompute that found rows of an earlier one, dropped one of them, and
\* stored a row for some but not all of the instrument's bars
C30_Witness ==
    /\ call.op = "recompute_features_for_instrument"
    /\ \E f \in FeaturesOf(call.db.features, 1) : f \notin db.features
    /\ FeaturesOf(db.features, 1) # {}
    /\ \E b \in db.bars :
          /\ b.instrument_id = 1
          /\ \A f \in FeaturesOf(db.features, 1) : f.date # b.date


\* C36: whenever validate_trade or calculate_position_size returns contracts
\* above 0, the amount risked stays within the budget:
\* contracts * |entry_price - stop_price| * multiplier <=
\* equity * risk_per_trade * risk_multiplier, the multiplier being 0.5 in
\* warning mode and 1 in normal mode.
C36_RiskWithinBudget ==
    /\ (result # <<>> /\ call.op = "calculate_position_size"
            /\ result[1].contracts > 0) =>
           result[1].contracts * Abs(call.entry_price - call.stop_price)
                * call.multiplier * call.self.risk_per_trade.den
                * call.risk_state.risk_multiplier.den
             <= call.equity * call.self.risk_per_trade.num
                  * call.risk_state.risk_multiplier.num
    /\ (result # <<>> /\ call.op = "validate_trade"
            /\ result[1].position_size.contracts > 0) =>
           LET mode == result[1].risk_state.mode
               halved == IF mode = "warning" THEN 2 ELSE 1
           IN  /\ mode \in {"normal", "warning"}
               /\ result[1].risk_state.risk_multiplier = Ratio(1, halved)
               /\ result[1].position_size.contracts
                     * Abs(call.entry_price - call.stop_price) * call.multiplier
                     * call.self.risk_per_trade.den * halved
                    <= call.equity * call.self.risk_per_trade.num

\* a trade validated in warning mode whose budget of 22.5 covers two
\* contracts of 10 and not a third
C36_Witness ==
    /\ result # <<>>
    /\ call.op = "validate_trade"
    /\ result[1].risk_state.mode = "warning"
    /\ result[1].position_size.contracts = 2
    /\ call.equity = 9000
    /\ call.self.risk_per_trade = Ratio(1, 200)
    /\ Abs(call.entry_price - call.stop_price) * call.multiplier = 10


(***************************************************************************)
(* Properties of the instrument loop within one day                         *)
(***************************************************************************)
\* the places in db.signals of the entry signals stored by the step
NewEntrySignals ==
    {k \in (Len(db.signals) + 1)..Len(db'.signals) :
        db'.signals[k].signal_type \in EntryActions}

\* the contracts validate_trade grants the entry signal s of the step when
\* the positions listed are the given ones, at the equity of the day's start
GrantedWith(s, positions) ==
    LET instrument == Instrument(s.instrument_id)
        listed == [k \in 1..Len(positions) |->
                      [value |-> get_value(positions[k], s.price),
                       symbol |-> positions[k].symbol]]
    IN  validate_trade(config, state.equity, state.peak_equity, 0, state.equity,
                       s.price, s.stop_price, instrument.tick_size,
                       instrument.multiplier, <<listed>>,
                       instrument.symbol).position_size.contracts

\* C31: within one day the instruments are evaluated one after the other, and
\* a position opened for an instrument processed earlier on the day is in the
\* list of current positions of the exposure check of an instrument processed
\* later on that day: the contracts granted to the later entry are those
\* validate_trade grants with the earlier position listed.
C31_EarlierEntryIsListed ==
    [][\A j, k \in NewEntrySignals :
          (/\ j < k
           /\ status' # "failed"
           /\ HasPosition(state'.positions, db'.signals[j].instrument_id)) =>
              db'.signals[k].target_contracts =
                  GrantedWith(db'.signals[k],
                      SelectSeq(state'.positions,
                          LAMBDA p : p.instrument_id # db'.signals[k].instrument_id))
      ]_vars

\* two entries signalled on one day under a gross exposure limit, the first
\* opened and the second, sized on the same equity, granted no contract
C31_Witness ==
    \E j, k \in 1..Len(db.signals) :
        /\ j < k
        /\ db.signals[j].date = db.signals[k].date
        /\ db.signals[j].signal_type \in EntryActions
        /\ db.signals[k].signal_type \in EntryActions
        /\ db.signals[j].target_contracts > 0
        /\ db.signals[k].target_contracts = 0
        /\ config.max_gross_exposure # <<>>
        /\ status # "failed"
        /\ Len(db.snapshots) > 0
        /\ db.snapshots[Len(db.snapshots)].date = db.signals[k].date
        /\ db.snapshots[Len(db.snapshots)].num_positions = 1


(***************************************************************************)
(* Properties of the daily snapshot                                         *)
(***************************************************************************)
\* the close an open position is marked at: the close of the latest row of
\* its instrument
MarkOf(position) == last_row[position.instrument_id][1].close

RECURSIVE SumTerms(_)
SumTerms(terms) ==
    IF terms = <<>> THEN 0 ELSE terms[1] + SumTerms(Tail(terms))

\* C32: at the end of each day the snapshot's unrealized P&L is the sum over
\* every open position of quantity * (close - entry_price) * multiplier, its
\* total exposure the sum over every open position of
\* |quantity * close * multiplier|, and each of the num_positions open
\* positions is in these sums.
C32_SnapshotMarksEveryPosition ==
    (pc = "loop" /\ day > 0) =>
        LET snapshot == db.snapshots[Len(db.snapshots)]
            PnlOf(p) == p.quantity * (MarkOf(p) - p.entry_price) * p.multiplier
            ExposureAt(p) == Abs(p.quantity * MarkOf(p) * p.multiplier)
        IN  /\ snapshot.num_positions = Len(state.positions)
            /\ snapshot.unrealized_pnl =
                  SumTerms([k \in 1..Len(state.positions) |-> PnlOf(state.positions[k])])
            /\ snapshot.total_exposure =
                  SumTerms([k \in 1..Len(state.positions) |-> ExposureAt(state.positions[k])])


\* the contracts validate_trade grants the entry signal s of the step when
\* each open position is listed at its own value: its quantity times the
\* day's close of its own instrument times its own multiplier
GrantedAtOwnValue(s, positions) ==
    LET instrument == Instrument(s.instrument_id)
        listed == [k \in 1..Len(positions) |->
                      [value |-> positions[k].quantity
                                    * last_row'[positions[k].instrument_id][1].close
                                    * positions[k].multiplier,
                       symbol |-> positions[k].symbol]]
    IN  validate_trade(config, state.equity, state.peak_equity, 0, state.equity,
                       s.price, s.stop_price, instrument.tick_size,
                       instrument.multiplier, <<listed>>,
                       instrument.symbol).position_size.contracts

\* C33: when the loop calls validate_trade for an entry, the value it passes
\* for each open position is that position's own value, its quantity times
\* the price of its own instrument times its own multiplier, whatever the
\* price of the instrument being entered: the contracts granted are those
\* validate_trade grants with the positions listed at their own values.
C33_PositionsListedAtOwnValue ==
    [][\A j, k \in NewEntrySignals :
          (/\ j < k
           /\ status' # "failed"
           /\ HasPosition(state'.positions, db'.signals[j].instrument_id)) =>
              db'.signals[k].target_contracts =
                  GrantedAtOwnValue(db'.signals[k],
                      SelectSeq(state'.positions,
                          LAMBDA p : p.instrument_id # db'.signals[k].instrument_id))
      ]_vars


\* C35: inside run_backtest the equity is recomputed in the end-of-day
\* snapshot only, so at every validate_trade call the equity is the one the
\* day started with and the daily P&L passed is 0: the daily-loss halt never
\* triggers, whatever was lost or paid earlier in the day, and the contracts
\* granted are those of the drawdown of the previous day's equity alone.
C35_DailyLossNeverHalts ==
    [][(pc = "loop" /\ status' # "failed") =>
          \A k \in NewEntrySignals :
              LET s == db'.signals[k]
                  risk_state == calculate_risk_state(config, state.equity,
                                    state.peak_equity, 0, state.equity)
              IN  /\ risk_state.message # "Daily loss limit exceeded. No new trades today."
                  /\ s.target_contracts =
                        GrantedWith(s, SelectSeq(state'.positions,
                                           LAMBDA p : p.instrument_id # s.instrument_id))
      ]_vars

\* two entries on one day: the first costs more commission than the daily
\* loss limit allows to lose, and the second is granted contracts all the same
C35_Witness ==
    \E j, k \in 1..Len(db.signals) : \E n \in 2..Len(db.snapshots) :
        /\ j < k
        /\ db.signals[j].date = db.signals[k].date
        /\ db.snapshots[n].date = db.signals[k].date
        /\ db.signals[j].signal_type \in EntryActions
        /\ db.signals[k].signal_type \in EntryActions
        /\ db.signals[k].target_contracts > 0
        /\ status # "failed"
        /\ \E f \in EntryFills :
              /\ f.instrument_id = db.signals[j].instrument_id
              /\ f.commission * config.daily_loss_limit_pct.den
                    > db.snapshots[n - 1].equity * config.daily_loss_limit_pct.num


(***************************************************************************)
(* Positions and strategy states                                            *)
(***************************************************************************)
\* the open positions of the instrument in the given list
HeldIn(positions, id) == SelectSeq(positions, LAMBDA p : p.instrument_id = id)

\* C34: at the end of every successfully processed day an instrument has an
\* open position exactly when its strategy state has a direction, long exactly
\* when the quantity is positive and short exactly when it is negative; an
\* entry is executed only for an instrument that was flat and had no open
\* position, an open position is never overwritten, and an instrument never
\* has more than one.
C34_PositionIffDirection ==
    [][(pc = "loop" /\ status' # "failed") =>
          \A id \in Loaded :
              LET ss == state'.strategy_states[id]
                  held == HeldIn(state'.positions, id)
                  entered == Len(FillsOf(db'.fills, id)) > Len(FillsOf(db.fills, id))
              IN  /\ Len(held) <= 1
                  /\ Len(held) = 1 <=> ss.direction # "none"
                  /\ Len(held) = 1 =>
                        /\ ss.direction = "long" <=> held[1].quantity > 0
                        /\ ss.direction = "short" <=> held[1].quantity < 0
                  /\ entered =>
                        /\ HeldIn(state.positions, id) = <<>>
                        /\ state.strategy_states[id].direction = "none"
                        /\ Len(FillsOf(db'.fills, id)) = Len(FillsOf(db.fills, id)) + 1
                  /\ HeldIn(state.positions, id) # <<>> =>
                        held = HeldIn(state.positions, id)
      ]_vars

\* a long position opened on an earlier day and still there, alone, after a
\* later day on which its instrument had a bar
C34_Witness ==
    /\ status # "failed"
    /\ Len(state.positions) = 1
    /\ state.positions[1].quantity > 0
    /\ state.strategy_states[state.positions[1].instrument_id].direction = "long"
    /\ \E s \in Signals :
          /\ s.instrument_id = state.positions[1].instrument_id
          /\ s.signal_type = "entry_long"
          /\ \E sn \in Snapshots :
                /\ sn.date > s.date
                /\ sn.date \in dates[s.instrument_id]
                /\ sn.date = db.snapshots[Len(db.snapshots)].date


(***************************************************************************)
(* Exits and completed runs                                                *)
(***************************************************************************)

\* C37: a run that reaches status completed has executed no exit at all:
\* total_trades, winning_trades and losing_trades are 0 in every completed
\* run, since the day that executes an exit raises in the caller of
\* _execute_exit and fails the run.
C37_CompletedRunHasNoExit ==
    /\ status = "completed" =>
           /\ state.total_trades = 0
           /\ state.winning_trades = 0
           /\ state.losing_trades = 0
           /\ ExitIndices = {}
    /\ state.total_trades > 0 =>
           /\ status = "failed"
           /\ error_message \in {DictChangedSize}
                  \cup {KeyErrorText(id) : id \in InstrumentIds}

\* a completed run that opened a position and still holds it at its end
C37_Witness ==
    /\ status = "completed"
    /\ \E k \in 1..Len(db.fills) : db.fills[k].kind = "entry"
    /\ state.positions # <<>>


(***************************************************************************)
(* The rule-based exit in the backtest loop                                *)
(***************************************************************************)

\* the places in db.signals of the exit_long / exit_short signals of the step
NewRuleExitSignals ==
    {k \in (Len(db.signals) + 1)..Len(db'.signals) :
        db'.signals[k].signal_type \in {"exit_long", "exit_short"}}

\* low <= close <= high
WellFormedBar(row) == row.low <= row.close /\ row.close <= row.high

\* the row's short-window low and high span the row's own bar, as the rolling
\* windows of the feature engine do when they are computed from this bar
ChannelHoldsBar(row) == row.ll_10 <= row.low /\ row.high <= row.hh_10

WellFormedBars(df) ==
    \A i \in 1..Len(df) :
        /\ df[i].high # <<>> /\ df[i].low # <<>> /\ df[i].close # <<>>
        /\ df[i].low[1] <= df[i].close[1]
        /\ df[i].close[1] <= df[i].high[1]

\* C39: on well-formed bars carrying the features the feature engine computes
\* from them, backtest_single_instrument never emits an entry; started
\* without a position, every row of its result is no_action and the position
\* state is flat at the end as it was at the start.
C39_SingleInstrumentNeverEnters ==
    (/\ call.op = "backtest_single_instrument"
     /\ result # <<>>
     /\ WellFormedBars(call.df)) =>
        LET signals == result[1].signals
        IN  /\ Len(signals) = Len(call.df)
            /\ \A i \in 1..Len(signals) : signals[i].action \notin EntryActions
            /\ call.initial_position = <<>> =>
                  /\ \A i \in 1..Len(signals) : signals[i].action = "no_action"
                  /\ result[1].position = PositionState

\* a run from flat over a bar that closes in an up-trend above the long-window
\* high of the row before it, after a close that was not above it: the
\* breakout measured against the previous row's channel, refused against the
\* bar's own
C39_Witness ==
    /\ call.op = "backtest_single_instrument"
    /\ result # <<>>
    /\ call.initial_position = <<>>
    /\ WellFormedBars(call.df)
    /\ \E i \in 2..Len(call.df) :
          LET hh == compute_highest_high(call.df, call.periods.breakout_period)
          IN  /\ hh[i - 1] # <<>>
              /\ call.df[i].close[1] > hh[i - 1][1]
              /\ call.df[i - 1].close[1] <= hh[i - 1][1]
              /\ result[1].signals[i].action = "no_action"
              /\ result[1].signals[i].reason = "Trend but no breakout"

====
